---- MODULE Spec2Model ----
(***************************************************************************)
(* A model of json2x/chatapp-v2-api: the entity store (misc/db.py,         *)
(* migrations/db/db_azure.py, database/crud.py), the chat turn             *)
(* (routes/chat.py) and the backend registry (llm_service_providers).      *)
(*                                                                         *)
(* Texts (message contents, previews, stream chunks) are sequences of      *)
(* characters; a character is a small number.  A nullable column is None   *)
(* (SQL NULL, Python None) or Some(v).                                     *)
(***************************************************************************)
EXTENDS Integers, Sequences, FiniteSets, TLC

VARIABLES
    backend,        \* which add_message/create/delete implementation serves the store
    conversations,  \* the conversations table: id -> row, for the committed rows
    messages,       \* the messages table, rows in insertion (rowid) order
    now,            \* the wall clock read by datetime('now') / GETDATE() / datetime.now
    uuids,          \* how many conversation ids uuid4 has handed out
    last,           \* the last store call and what it returned
    providers,      \* llm_service.providers: the backends whose credential was present
    turn,           \* the chat request being served: its position and its locals
    txn,            \* two add_message calls running at once: their positions and locks
    replicas        \* one store per implementation, given the same calls

vars == <<backend, conversations, messages, now, uuids, last, providers, turn, txn,
          replicas>>

-----------------------------------------------------------------------------
(* Bounds of the model *)

MaxConvs == 1
MaxMsgs == 2
MaxTime == 1
MaxChunks == 2

-----------------------------------------------------------------------------
(* Values *)

None == <<>>
Some(v) == <<v>>

\* Python truthiness of a nullable text column: None and "" are both falsy
Falsy(col) == col = None \/ col = Some(<<>>)

\* A text of n characters
Str(n) == IF n = 0 THEN <<>> ELSE [i \in 1..n |-> 1 + (i % 2)]

\* Python's s[:n]
Slice(s, n) == SubSeq(s, 1, IF Len(s) < n THEN Len(s) ELSE n)

PREVIEW_LEN == 100

Backends == {"sqlite", "azure_sql", "orm"}
Contents == {Str(0), Str(1), Str(101)}

\* An id no uuid4 call ever returned: a request may name it
UnknownId == 0
Store == [conversations |-> conversations, messages |-> messages]

\* the rows of table messages with the given conversation id and role
RowsOf(msgs, conversation_id, role) ==
    {i \in DOMAIN msgs : msgs[i].conversation_id = conversation_id /\ msgs[i].role = role}

-----------------------------------------------------------------------------
(* create_conversation: INSERT INTO conversations ... NULL, NULL *)

NewConversation(model, system_prompt, t) ==
    [model |-> model, system_prompt |-> system_prompt,
     created_at |-> t, updated_at |-> t,
     first_user_message |-> None, first_assistant_message |-> None]

create_conversation(S, conversation_id, model, system_prompt, t) ==
    [S EXCEPT !.conversations =
        [c \in DOMAIN S.conversations \cup {conversation_id} |->
            IF c = conversation_id THEN NewConversation(model, system_prompt, t)
            ELSE S.conversations[c]]]

NewMessage(message_id, conversation_id, role, content, model, t) ==
    [id |-> message_id, conversation_id |-> conversation_id, role |-> role,
     content |-> content, created_at |-> t, model |-> model]

\* an UPDATE that sets the preview columns and forgets updated_at
UpdateRowPreviewsOnly(convs, conversation_id, set) ==
    [c \in DOMAIN convs |->
        IF c = conversation_id
        THEN [column \in DOMAIN convs[c] |->
                 IF column \in DOMAIN set \ {"updated_at"} THEN set[column]
                 ELSE convs[c][column]]
        ELSE convs[c]]

\* an UPDATE with no WHERE clause: every row is assigned
UpdateEveryRow(convs, conversation_id, set) ==
    [c \in DOMAIN convs |->
        [column \in DOMAIN convs[c] |->
            IF column \in DOMAIN set THEN set[column] ELSE convs[c][column]]]

\* UPDATE conversations SET <set> WHERE id = ?: no row matches an absent id
UpdateRow(convs, conversation_id, set) ==
    [c \in DOMAIN convs |->
        IF c = conversation_id
        THEN [column \in DOMAIN convs[c] |->
                 IF column \in DOMAIN set THEN set[column] ELSE convs[c][column]]
        ELSE convs[c]]

-----------------------------------------------------------------------------
(* misc/db.py add_message: insert, count the rows of the role, update *)

sqlite_truncate(content) ==
    IF Len(content) > PREVIEW_LEN THEN Slice(content, PREVIEW_LEN) ELSE content

\* a first-of-role test that forgets the rows already there
sqlite_is_counted(count) == count >= 1

sqlite_is_first(count) == count = 1

sqlite_add_message(S, message_id, conversation_id, role, content, model, t1, t2) ==
    LET msgs == Append(S.messages,
                       NewMessage(message_id, conversation_id, role, content, model, t1))
        count == Cardinality(RowsOf(msgs, conversation_id, role))
        truncated_content == sqlite_truncate(content)
        SetUser == [first_user_message |-> Some(truncated_content), updated_at |-> t2]
        SetAssistant == [first_assistant_message |-> Some(truncated_content),
                                     updated_at |-> t2]
        Touch == [updated_at |-> t2]
        convs == IF role \in {"user", "assistant"}
                 THEN IF sqlite_is_first(count)
                      THEN IF role = "user"
                           THEN UpdateRow(S.conversations, conversation_id, SetUser)
                           ELSE UpdateRow(S.conversations, conversation_id, SetAssistant)
                      ELSE UpdateRow(S.conversations, conversation_id, Touch)
                 ELSE UpdateRow(S.conversations, conversation_id, Touch)
    IN  [store |-> [conversations |-> convs, messages |-> msgs], result |-> "id"]

-----------------------------------------------------------------------------
(* migrations/db/db_azure.py add_message: insert (the foreign key is       *)
(* enforced by the server), read the preview column, update                *)

azure_truncate(content) == Slice(content, PREVIEW_LEN)

\* if not result or not result[0]
azure_is_first(column) == Falsy(column)

azure_add_message(S, message_id, conversation_id, role, content, model, t1, t2) ==
    IF conversation_id \notin DOMAIN S.conversations
    THEN [store |-> S, result |-> "IntegrityError"]
    ELSE
    LET msgs == Append(S.messages,
                       NewMessage(message_id, conversation_id, role, content, model, t1))
        conv == S.conversations[conversation_id]
        truncated_content == azure_truncate(content)
        SetUser == [first_user_message |-> Some(truncated_content), updated_at |-> t2]
        SetAssistant == [first_assistant_message |-> Some(truncated_content),
                                     updated_at |-> t2]
        Touch == [updated_at |-> t2]
        convs == IF role = "user"
                 THEN IF azure_is_first(conv.first_user_message)
                      THEN UpdateRow(S.conversations, conversation_id, SetUser)
                      ELSE UpdateRow(S.conversations, conversation_id, Touch)
                 ELSE IF role = "assistant"
                 THEN IF azure_is_first(conv.first_assistant_message)
                      THEN UpdateRow(S.conversations, conversation_id, SetAssistant)
                      ELSE UpdateRow(S.conversations, conversation_id, Touch)
                 ELSE UpdateRow(S.conversations, conversation_id, Touch)
    IN  [store |-> [conversations |-> convs, messages |-> msgs], result |-> "id"]

-----------------------------------------------------------------------------
(* database/crud.py add_message: look the conversation up, add the         *)
(* message, set updated_at and the previews, commit                        *)

crud_truncate(content) == IF content # <<>> THEN Slice(content, PREVIEW_LEN) ELSE <<>>

crud_add_message(S, message_id, conversation_id, role, content, model, t1, t2) ==
    IF conversation_id \notin DOMAIN S.conversations
    THEN [store |-> S, result |-> "None"]
    ELSE
    LET conv == S.conversations[conversation_id]
        truncated_content == crud_truncate(content)
        \* conversation.updated_at = datetime.now() runs before the flush that
        \* stamps the message's created_at default
        msgs == Append(S.messages,
                       NewMessage(message_id, conversation_id, role, content, model, t2))
        Row ==
            IF role = "user" /\ Falsy(conv.first_user_message)
            THEN [updated_at |-> t1, first_user_message |-> Some(truncated_content)]
            ELSE IF role = "assistant" /\ Falsy(conv.first_assistant_message)
            THEN [updated_at |-> t1, first_assistant_message |-> Some(truncated_content)]
            ELSE [updated_at |-> t1]
    IN  [store |-> [conversations |-> UpdateRow(S.conversations, conversation_id, Row),
                    messages |-> msgs],
         result |-> "message"]

\* db_factory / the ORM layer: the implementation the configuration selects
add_message(b, S, message_id, conversation_id, role, content, model, t1, t2) ==
    CASE b = "sqlite" ->
            sqlite_add_message(S, message_id, conversation_id, role, content, model, t1, t2)
      [] b = "azure_sql" ->
            azure_add_message(S, message_id, conversation_id, role, content, model, t1, t2)
      [] b = "orm" ->
            crud_add_message(S, message_id, conversation_id, role, content, model, t1, t2)

-----------------------------------------------------------------------------
(* delete_conversation *)

\* misc/db.py get_db_connection opens the connection without
\* PRAGMA foreign_keys = ON: SQLite then ignores ON DELETE CASCADE
sqlite_foreign_keys == FALSE

Cascade(msgs, conversation_id) ==
    LET Keep(m) == m.conversation_id # conversation_id IN SelectSeq(msgs, Keep)

DropRow(convs, conversation_id) ==
    [c \in DOMAIN convs \ {conversation_id} |-> convs[c]]

sqlite_delete_conversation(S, conversation_id) ==
    [store |-> [conversations |-> DropRow(S.conversations, conversation_id),
                messages |-> IF sqlite_foreign_keys
                             THEN Cascade(S.messages, conversation_id)
                             ELSE S.messages],
     result |-> conversation_id \in DOMAIN S.conversations]

azure_delete_conversation(S, conversation_id) ==
    [store |-> [conversations |-> DropRow(S.conversations, conversation_id),
                messages |-> Cascade(S.messages, conversation_id)],
     result |-> conversation_id \in DOMAIN S.conversations]

\* the ORM relationship cascade="all, delete-orphan" deletes the loaded messages
crud_delete_conversation(S, conversation_id) ==
    IF conversation_id \in DOMAIN S.conversations
    THEN [store |-> [conversations |-> DropRow(S.conversations, conversation_id),
                     messages |-> Cascade(S.messages, conversation_id)],
          result |-> TRUE]
    ELSE [store |-> S, result |-> FALSE]

delete_conversation(b, S, conversation_id) ==
    CASE b = "sqlite" -> sqlite_delete_conversation(S, conversation_id)
      [] b = "azure_sql" -> azure_delete_conversation(S, conversation_id)
      [] b = "orm" -> crud_delete_conversation(S, conversation_id)

-----------------------------------------------------------------------------
(* The callers of the store *)

NoTxn == [role |-> "", rcsi |-> FALSE, holder |-> 0, calls |-> <<>>]

NoReplicas == <<>>

NoCall == [op |-> "none", conversation_id |-> UnknownId, result |-> "", rows |-> <<>>, args |-> <<>>]

\* the clock may move between two statements of a call
Later == {t \in {now, now + 1} : t <= MaxTime}

\* ids a caller can name: every id handed out so far, and one never handed out
Nameable == (1..uuids) \cup {UnknownId}

-----------------------------------------------------------------------------
(* misc/db.py get_conversation: the row, and its messages ORDER BY created_at *)

RECURSIVE OrderByCreatedAt(_, _, _)
OrderByCreatedAt(rows, t, tmax) ==
    IF t > tmax THEN <<>>
    ELSE LET At(m) == m.created_at = t
         IN  SelectSeq(rows, At) \o OrderByCreatedAt(rows, t + 1, tmax)

MaxCreatedAt(rows) ==
    IF rows = <<>> THEN 0
    ELSE CHOOSE t \in {rows[i].created_at : i \in DOMAIN rows} :
            \A i \in DOMAIN rows : rows[i].created_at <= t

\* the rows of one conversation, in the order they were inserted
MessagesOf(S, conversation_id) ==
    LET Mine(m) == m.conversation_id = conversation_id
    IN  SelectSeq(S.messages, Mine)

\* every arrangement of rows that all carry the same created_at
Arrangements(rows) ==
    LET n == Len(rows)
        Perms == {f \in [1..n -> 1..n] : \A i, j \in 1..n : i # j => f[i] # f[j]}
    IN  {[i \in 1..n |-> rows[f[i]]] : f \in Perms}

\* ORDER BY created_at names no second key: every arrangement of the rows
\* that is non-decreasing in created_at is an order the engine may return
RECURSIVE OrderingsFrom(_, _, _)
OrderingsFrom(rows, t, tmax) ==
    IF t > tmax THEN {<<>>}
    ELSE LET At(m) == m.created_at = t
         IN  {p \o q : p \in Arrangements(SelectSeq(rows, At)),
                       q \in OrderingsFrom(rows, t + 1, tmax)}

Orderings(rows) == OrderingsFrom(rows, 0, MaxCreatedAt(rows))

\* ordered: the rows as the SELECT returned them, one of Orderings(MessagesOf)
get_conversation(S, conversation_id, ordered) ==
    IF conversation_id \notin DOMAIN S.conversations
    THEN None
    ELSE Some([row |-> S.conversations[conversation_id],
               messages |-> ordered])

-----------------------------------------------------------------------------
(* misc/constants.py and llm_service_providers/index.py: the registry.     *)
(* A model name is <<family prefix, rest>>: "gpt-4o" is <<"gpt-", "4o">>.  *)

OPENAI == "openai"
ANTHROPIC == "anthropic"

MODEL_PROVIDER_MAP ==
    (<<"gpt-", "4o-mini">> :> OPENAI) @@ (<<"gpt-", "4o">> :> OPENAI) @@
    (<<"gpt-", "4.1">> :> OPENAI) @@ (<<"gpt-", "4.1-mini">> :> OPENAI) @@
    (<<"gpt-", "3.5-turbo">> :> OPENAI) @@
    (<<"claude-", "3-5-haiku-20241022">> :> ANTHROPIC) @@
    (<<"claude-", "3-opus-20240229">> :> ANTHROPIC) @@
    (<<"claude-", "3-sonnet-20240229">> :> ANTHROPIC) @@
    (<<"claude-", "3-haiku-20240307">> :> ANTHROPIC)

CONVERSATION_MESSAGES_THRESHOLD == 20

\* LLMServiceProvider.__init__: a backend is registered when its key is present
Registries == SUBSET {OPENAI, ANTHROPIC}

\* what a call of the summarizer can give: a text, or None where it raises
Summaries == {None, Some("- point one")}

\* brief_summary_of_conversation_history raises ValueError where the OpenAI
\* provider is not initialized; where it is, the completion returns or raises
brief_summary_of_conversation_history(registry) ==
    IF OPENAI \notin registry THEN {None} ELSE Summaries

\* a resolution whose prefix rule knows "gpt-" alone for OpenAI
get_provider_for_model_gpt_only(model) ==
    IF model \in DOMAIN MODEL_PROVIDER_MAP THEN Some(MODEL_PROVIDER_MAP[model])
    ELSE IF model[1] = "gpt-" THEN Some(OPENAI)
    ELSE IF model[1] = "claude-" THEN Some(ANTHROPIC)
    ELSE None

\* the provider name, or None where the code raises ValueError("Unsupported model")
get_provider_for_model(model) ==
    IF model \in DOMAIN MODEL_PROVIDER_MAP THEN Some(MODEL_PROVIDER_MAP[model])
    ELSE IF model[1] = "gpt-" \/ model[1] = "text-" THEN Some(OPENAI)
    ELSE IF model[1] = "claude-" THEN Some(ANTHROPIC)
    ELSE None

\* what the call llm_service.stream_chat(model, messages) does before it streams
stream_chat(registry, model) ==
    LET provider_name == get_provider_for_model(model)
    IN  IF provider_name = None THEN "Unsupported model"
        ELSE IF provider_name[1] \notin registry THEN "Provider is not initialized"
        ELSE "stream"

\* a listing of the whole table, whatever is registered
get_all_models(registry) ==
    [provider_name \in {OPENAI, ANTHROPIC} |->
        {model \in DOMAIN MODEL_PROVIDER_MAP : MODEL_PROVIDER_MAP[model] = provider_name}]

get_available_models(registry) ==
    [provider_name \in registry |->
        {model \in DOMAIN MODEL_PROVIDER_MAP : MODEL_PROVIDER_MAP[model] = provider_name}]

\* an availability test by name alone, which never asks the registry
model_found_by_name(registry, model) == get_provider_for_model(model) # None

\* routes/chat.py: the loop that sets model_found
model_found(registry, model) ==
    LET available_models == get_available_models(registry)
    IN  \E provider \in DOMAIN available_models : model \in available_models[provider]

-----------------------------------------------------------------------------
(* LLMServiceProvider.get_message_history.  summary is what                *)
(* brief_summary_of_conversation_history returns, None where it raises;    *)
(* the result is None where the code raises "Conversation not found".      *)

Entry(role, content) == [role |-> role, content |-> content]

\* a projection that keeps the messages of every role
ProjectAnyRole(db_messages) ==
    [i \in DOMAIN db_messages |-> Entry(db_messages[i].role, db_messages[i].content)]

RECURSIVE Project(_)
Project(db_messages) ==
    IF db_messages = <<>> THEN <<>>
    ELSE LET msg == Head(db_messages)
         IN  IF msg.role \notin {"user", "assistant", "system"}
             THEN Project(Tail(db_messages))
             ELSE <<Entry(msg.role, msg.content)>> \o Project(Tail(db_messages))

SUMMARY_PREFIX == "Summary of previous conversation: \n"

\* a split that keeps one message fewer, leaving room for the summary
recent_messages_leaving_room(msgs) ==
    SubSeq(msgs, Len(msgs) - (CONVERSATION_MESSAGES_THRESHOLD - 1) + 1, Len(msgs))

\* index.py line 206, messages[-CONVERSATION_MESSAGES_THRESHOLD:]
recent_messages_of(msgs) ==
    SubSeq(msgs, Len(msgs) - CONVERSATION_MESSAGES_THRESHOLD + 1, Len(msgs))

\* index.py line 207, messages[:-CONVERSATION_MESSAGES_THRESHOLD]
older_messages_of(msgs) ==
    SubSeq(msgs, 1, Len(msgs) - CONVERSATION_MESSAGES_THRESHOLD)

\* an assembler that summarizes every long conversation, whatever the flag
run_get_message_history_ignoring_flag(S, conversation_id, ordered, summarize, summary) ==
    LET conversation == get_conversation(S, conversation_id, ordered)
    IN  IF conversation = None THEN [returned |-> None, summarized |-> <<>>]
        ELSE
        LET msgs == Project(conversation[1].messages)
        IN  IF Len(msgs) <= CONVERSATION_MESSAGES_THRESHOLD
            THEN [returned |-> Some(msgs), summarized |-> <<>>]
            ELSE [returned |->
                     IF summary # None
                     THEN Some(<<Entry("system", <<SUMMARY_PREFIX, summary[1]>>)>>
                               \o recent_messages_of(msgs))
                     ELSE Some(recent_messages_of(msgs)),
                  summarized |-> <<older_messages_of(msgs)>>]

\* a handler that lets the summarizer's exception leave the assembler
summary_failed_reraised(recent_messages) == None

\* index.py lines 223-226, except Exception: return recent_messages
summary_failed(recent_messages) == Some(recent_messages)

\* what the call returns (None where it raises) and, in order, the lists it
\* handed to brief_summary_of_conversation_history
run_get_message_history(S, conversation_id, ordered, summarize, summary) ==
    LET conversation == get_conversation(S, conversation_id, ordered)
    IN  IF conversation = None THEN [returned |-> None, summarized |-> <<>>]
        ELSE
        LET msgs == Project(conversation[1].messages)
            recent_messages == recent_messages_of(msgs)
            older_messages == older_messages_of(msgs)
        IN  IF Len(msgs) <= CONVERSATION_MESSAGES_THRESHOLD
            THEN [returned |-> Some(msgs), summarized |-> <<>>]
            ELSE IF ~summarize
            THEN [returned |-> Some(msgs), summarized |-> <<>>]
            ELSE IF older_messages # <<>>
            THEN [returned |->
                     IF summary # None
                     THEN Some(<<Entry("system", <<SUMMARY_PREFIX, summary[1]>>)>>
                               \o recent_messages)
                     ELSE summary_failed(recent_messages),
                  summarized |-> <<older_messages>>]
            ELSE [returned |-> Some(recent_messages), summarized |-> <<>>]

get_message_history(S, conversation_id, ordered, summarize, summary) ==
    run_get_message_history(S, conversation_id, ordered, summarize, summary).returned

-----------------------------------------------------------------------------
(* database/crud.py get_message_history: the ORM's assembler.  threshold is *)
(* its parameter; it never calls a summarizer and never raises.             *)

HasSystem(msgs) == \E i \in DOMAIN msgs : msgs[i].role = "system"

crud_get_message_history(S, conversation_id, ordered, summarize, threshold) ==
    LET conversation == get_conversation(S, conversation_id, ordered)
    IN  IF conversation = None THEN <<>>
        ELSE
        LET projected == Project(conversation[1].messages)
            system_prompt == conversation[1].row.system_prompt
            msgs == IF ~Falsy(system_prompt) /\ ~HasSystem(projected)
                    THEN <<Entry("system", system_prompt[1])>> \o projected
                    ELSE projected
            recent_messages == SubSeq(msgs, Len(msgs) - (threshold - 1) + 1, Len(msgs))
            summary_message ==
                Entry("system", <<"[This would be a summary of ",
                                  Len(msgs) - Len(recent_messages),
                                  " earlier messages]">>)
        IN  IF ~summarize \/ Len(msgs) <= threshold THEN msgs
            ELSE <<summary_message>> \o recent_messages

-----------------------------------------------------------------------------
(* routes/chat.py: the chat handler and stream_generator.                  *)
(*                                                                         *)
(* turn.pc is the position of the request:                                 *)
(*   idle            no request yet                                        *)
(*   CREATED         the request arrived                                   *)
(*   checked         the model passed the availability check               *)
(*   resolved        the conversation id is known (given or created)       *)
(*   USER_APPENDED   the user message is stored                            *)
(*   HISTORY_READY   get_message_history returned                          *)
(*   STREAMING       StreamingResponse returned; the generator is at its   *)
(*                   start or at the sleep between two items; turn.opened  *)
(*                   tells whether the backend stream has been opened      *)
(*   yield_chunk     the generator is suspended at the yield of line 62    *)
(*   yield_done      ... at the yield of line 73                           *)
(*   yield_error     ... at the yield of line 90                           *)
(*   COMPLETE        the generator returned after add_message              *)
(*   FAILED          the generator returned after the error event          *)
(*   closed          the generator was closed at a suspension point        *)
(*                   (GeneratorExit / CancelledError are not Exceptions)   *)
(*   rejected, error the handler raised: HTTP 400, HTTP 500                *)

Terminal == {"rejected", "error", "COMPLETE", "FAILED", "closed"}

\* rows0 and listing0 are the message count and the conversations table as
\* they were when the request arrived
NoTurn ==
    [pc |-> "idle", model |-> <<"", "">>, message |-> <<>>,
     conversation_session_id |-> None, system_prompt |-> None,
     summarize_history |-> TRUE,
     conversation_id |-> UnknownId, created |-> FALSE,
     listing0 |-> <<>>, rows0 |-> 0,
     status |-> None, detail |-> None, history |-> None,
     opened |-> FALSE, items |-> <<>>, received |-> 0, full_content |-> <<>>, events |-> <<>>, e |-> None]

\* schema/chat.py ChatStreamResponse and its defaults
ChatStreamResponse(content, done, conversation_id, error) ==
    [content |-> content, done |-> done, conversation_id |-> conversation_id,
     error |-> error]

\* stream_generator lines 56-59
ChunkEvent(content) == ChatStreamResponse(content, FALSE, None, None)

\* stream_generator lines 68-72
DoneEvent(conversation_id) == ChatStreamResponse(<<>>, TRUE, Some(conversation_id), None)

\* an error event left with the schema's default done=False
ErrorEventUnfinished(e, conversation_id) ==
    ChatStreamResponse(<<>>, FALSE, Some(conversation_id), Some(e))

\* stream_generator lines 85-89
ErrorEvent(e, conversation_id) ==
    ChatStreamResponse(<<>>, TRUE, Some(conversation_id), Some(e))

\* what the backends yield: an OpenAI chunk (choices[0].delta.content), an
\* Anthropic event (delta.text), or an object with neither
RequestModels == {<<"gpt-", "4o-mini">>, <<"claude-", "3-5-haiku-20241022">>,
                  <<"gpt-", "5">>, <<"nonexistent-", "model">>}
UserMessages == {Str(1)}
Chunks == {[format |-> "openai", text |-> Some(<<3>>)],
           [format |-> "openai", text |-> None],
           [format |-> "anthropic", text |-> Some(<<4>>)],
           [format |-> "anthropic", text |-> Some(<<>>)],
           [format |-> "other", text |-> None]}

\* stream_generator lines 41-50: the text of an item
ChunkContent(chunk) ==
    IF chunk.format = "openai"
    THEN IF chunk.text # None /\ chunk.text[1] # <<>> THEN chunk.text[1] ELSE <<>>
    ELSE IF chunk.format = "anthropic"
    THEN IF chunk.text # None /\ chunk.text[1] # <<>> THEN chunk.text[1] ELSE <<>>
    ELSE IF chunk.text # None THEN chunk.text[1] ELSE <<>>

InitTurn ==
    /\ backend = "sqlite"
    /\ conversations = <<>>
    /\ messages = <<>>
    /\ now = 0
    /\ uuids = 0
    /\ last = NoCall
    /\ providers \in Registries
    /\ turn = NoTurn
    /\ txn = NoTxn
    /\ replicas = NoReplicas

\* POST /api/chat arrives, system_prompt and summarize_history at their
\* defaults.  A request is served to its end before the next.
Request ==
    /\ turn.pc \in {"idle"} \cup Terminal
    /\ Len(messages) + 2 <= MaxMsgs
    /\ \E model \in RequestModels, message \in UserMessages,
          conversation_session_id \in {None} \cup {Some(c) : c \in Nameable},
          system_prompt \in {None}, summarize_history \in {TRUE} :
         /\ conversation_session_id = None => uuids < MaxConvs
         /\ turn' = [NoTurn EXCEPT !.pc = "CREATED", !.model = model,
                                   !.message = message,
                                   !.conversation_session_id = conversation_session_id,
                                   !.system_prompt = system_prompt,
                                   !.summarize_history = summarize_history,
                                   !.listing0 = conversations,
                                   !.rows0 = Len(messages)]
    /\ UNCHANGED <<backend, conversations, messages, now, uuids, last, providers, txn, replicas>>

\* chat lines 113-123
\* chat lines 122-123: the HTTPException raised where model_found is false,
\* None where the handler goes on
chat_check_model_response(registry, model) ==
    IF model_found(registry, model) THEN None
    ELSE Some([status |-> 400, detail |-> "Model is not available"])

chat_check_model ==
    /\ turn.pc = "CREATED"
    /\ LET response == chat_check_model_response(providers, turn.model)
       IN  IF response = None
           THEN turn' = [turn EXCEPT !.pc = "checked"]
           ELSE turn' = [turn EXCEPT !.pc = "rejected",
                                     !.status = Some(response[1].status),
                                     !.detail = Some(response[1].detail)]
    /\ UNCHANGED <<backend, conversations, messages, now, uuids, last, providers, txn, replicas>>

\* chat lines 125-135
chat_create_conversation ==
    /\ turn.pc = "checked"
    /\ IF turn.conversation_session_id = None
       THEN /\ conversations' =
                   create_conversation(Store, uuids + 1, turn.model,
                                       turn.system_prompt, now).conversations
            /\ uuids' = uuids + 1
            /\ turn' = [turn EXCEPT !.pc = "resolved", !.conversation_id = uuids + 1,
                                    !.created = TRUE]
       ELSE /\ turn' = [turn EXCEPT !.pc = "resolved",
                                    !.conversation_id = turn.conversation_session_id[1]]
            /\ UNCHANGED <<conversations, uuids>>
    /\ UNCHANGED <<backend, messages, now, last, providers, txn, replicas>>

\* chat lines 137-142.  The storage call may raise (sqlite3.OperationalError:
\* the database is locked, the disk is full): the handler then ends with 500.
chat_add_message ==
    /\ turn.pc = "resolved"
    /\ \/ \E t1 \in Later : \E t2 \in {t \in {t1, t1 + 1} : t <= MaxTime} :
            LET r == add_message(backend, Store, Len(messages) + 1,
                                 turn.conversation_id, "user", turn.message, None, t1, t2)
            IN  /\ conversations' = r.store.conversations
                /\ messages' = r.store.messages
                /\ now' = t2
                /\ turn' = [turn EXCEPT !.pc = "USER_APPENDED"]
       \/ /\ turn' = [turn EXCEPT !.pc = "error", !.status = Some(500),
                                  !.detail = Some("OperationalError")]
          /\ UNCHANGED <<conversations, messages, now>>
    /\ UNCHANGED <<backend, uuids, last, providers, txn, replicas>>

\* chat lines 144-148
chat_get_message_history ==
    /\ turn.pc = "USER_APPENDED"
    /\ \E summary \in brief_summary_of_conversation_history(providers),
          ordered \in Orderings(MessagesOf(Store, turn.conversation_id)) :
         LET h == get_message_history(Store, turn.conversation_id, ordered,
                                      turn.summarize_history, summary)
         IN  IF h = None
             THEN turn' = [turn EXCEPT !.pc = "error", !.status = Some(500),
                                       !.detail = Some("Conversation not found")]
             ELSE turn' = [turn EXCEPT !.pc = "HISTORY_READY", !.history = h]
    /\ UNCHANGED <<backend, conversations, messages, now, uuids, last, providers, txn, replicas>>

\* chat lines 150-154: the response starts (status 200), the generator is created
chat_return ==
    /\ turn.pc = "HISTORY_READY"
    /\ turn' = [turn EXCEPT !.pc = "STREAMING", !.status = Some(200)]
    /\ UNCHANGED <<backend, conversations, messages, now, uuids, last, providers, txn, replicas>>

\* the except clause, lines 83-90
stream_generator_except(e) ==
    turn' = [turn EXCEPT !.pc = "yield_error", !.e = Some(e),
                         !.events = Append(@, ErrorEvent(e, turn.conversation_id))]

\* line 38: llm_service.stream_chat resolves the backend and opens its stream
\* (the provider's create(stream=True) sends the request when it is called)
stream_generator_open ==
    /\ turn.pc = "STREAMING"
    /\ ~turn.opened
    /\ stream_chat(providers, turn.model) = "stream"
    /\ turn' = [turn EXCEPT !.opened = TRUE]
    /\ UNCHANGED <<backend, conversations, messages, now, uuids, last, providers, txn, replicas>>

\* a loop body that keeps the text of the latest item alone
stream_generator_chunk_overwriting ==
    /\ turn.pc = "STREAMING"
    /\ turn.opened
    /\ turn.received < MaxChunks
    /\ \E chunk \in Chunks :
         LET content == ChunkContent(chunk)
         IN  turn' = [turn EXCEPT !.pc = "yield_chunk",
                                  !.items = Append(@, chunk),
                                  !.received = @ + 1,
                                  !.full_content = content,
                                  !.events = Append(@, ChunkEvent(content))]
    /\ UNCHANGED <<backend, conversations, messages, now, uuids, last, providers, txn, replicas>>

\* a loop body that sends an event only for an item that has text
stream_generator_chunk_skipping ==
    /\ turn.pc = "STREAMING"
    /\ turn.opened
    /\ turn.received < MaxChunks
    /\ \E chunk \in Chunks :
         LET content == ChunkContent(chunk)
         IN  turn' = [turn EXCEPT !.pc = IF content = <<>> THEN @ ELSE "yield_chunk",
                                  !.items = Append(@, chunk),
                                  !.received = @ + 1,
                                  !.full_content = @ \o content,
                                  !.events = IF content = <<>> THEN @
                                             ELSE Append(@, ChunkEvent(content))]
    /\ UNCHANGED <<backend, conversations, messages, now, uuids, last, providers, txn, replicas>>

\* lines 39-62: the backend stream gives one more item (turn.items keeps
\* the items in the order received)
stream_generator_chunk ==
    /\ turn.pc = "STREAMING"
    /\ turn.opened
    /\ turn.received < MaxChunks
    /\ \E chunk \in Chunks :
         LET content == ChunkContent(chunk)
         IN  turn' = [turn EXCEPT !.pc = "yield_chunk",
                                  !.items = Append(@, chunk),
                                  !.received = @ + 1,
                                  !.full_content = @ \o content,
                                  !.events = Append(@, ChunkEvent(content))]
    /\ UNCHANGED <<backend, conversations, messages, now, uuids, last, providers, txn, replicas>>

\* lines 62-65: the consumer asks for the next event; the generator sleeps
stream_generator_resume ==
    /\ turn.pc = "yield_chunk"
    /\ turn' = [turn EXCEPT !.pc = "STREAMING"]
    /\ UNCHANGED <<backend, conversations, messages, now, uuids, last, providers, txn, replicas>>

\* lines 67-73: the backend stream is exhausted
stream_generator_done ==
    /\ turn.pc = "STREAMING"
    /\ turn.opened
    /\ turn' = [turn EXCEPT !.pc = "yield_done",
                            !.events = Append(@, DoneEvent(turn.conversation_id))]
    /\ UNCHANGED <<backend, conversations, messages, now, uuids, last, providers, txn, replicas>>

\* lines 38-39 and 83-90: stream_chat raises (the ValueError of index.py, or
\* the provider's request fails), or the opened backend stream raises
stream_generator_backend_error ==
    /\ turn.pc = "STREAMING"
    /\ IF stream_chat(providers, turn.model) # "stream"
       THEN stream_generator_except(stream_chat(providers, turn.model))
       ELSE IF ~turn.opened THEN stream_generator_except("BackendOpenError")
       ELSE stream_generator_except("BackendStreamError")
    /\ UNCHANGED <<backend, conversations, messages, now, uuids, last, providers, txn, replicas>>

\* lines 75-81, resumed after the yield of line 73: add_message, which may raise
stream_generator_add_message ==
    /\ turn.pc = "yield_done"
    /\ \/ \E t1 \in Later : \E t2 \in {t \in {t1, t1 + 1} : t <= MaxTime} :
            LET r == add_message(backend, Store, Len(messages) + 1,
                                 turn.conversation_id, "assistant", turn.full_content,
                                 Some(turn.model), t1, t2)
            IN  /\ conversations' = r.store.conversations
                /\ messages' = r.store.messages
                /\ now' = t2
                /\ turn' = [turn EXCEPT !.pc = "COMPLETE"]
       \/ /\ stream_generator_except("OperationalError")
          /\ UNCHANGED <<conversations, messages, now>>
    /\ UNCHANGED <<backend, uuids, last, providers, txn, replicas>>

\* an error handler that starts the stream over
stream_generator_retry ==
    /\ turn.pc = "yield_error"
    /\ turn' = [turn EXCEPT !.pc = "STREAMING", !.opened = FALSE]
    /\ UNCHANGED <<backend, conversations, messages, now, uuids, last, providers, txn, replicas>>

\* an error handler that takes the turn's user message back
stream_generator_return_rolling_back ==
    /\ turn.pc = "yield_error"
    /\ messages' = SubSeq(messages, 1, turn.rows0)
    /\ turn' = [turn EXCEPT !.pc = "FAILED"]
    /\ UNCHANGED <<backend, conversations, now, uuids, last, providers, txn, replicas>>

\* resumed after the yield of line 90: the generator returns
stream_generator_return ==
    /\ turn.pc = "yield_error"
    /\ turn' = [turn EXCEPT !.pc = "FAILED"]
    /\ UNCHANGED <<backend, conversations, messages, now, uuids, last, providers, txn, replicas>>

\* a close handler that saves what was accumulated so far
disconnect_saving ==
    /\ turn.pc \in {"STREAMING", "yield_chunk", "yield_done", "yield_error"}
    /\ messages' = Append(messages,
                          NewMessage(Len(messages) + 1, turn.conversation_id,
                                     "assistant", turn.full_content, Some(turn.model), now))
    /\ turn' = [turn EXCEPT !.pc = "closed"]
    /\ UNCHANGED <<backend, conversations, now, uuids, last, providers, txn, replicas>>

\* the caller stops reading: the generator is closed where it is suspended
disconnect ==
    /\ turn.pc \in {"STREAMING", "yield_chunk", "yield_done", "yield_error"}
    /\ turn' = [turn EXCEPT !.pc = "closed"]
    /\ UNCHANGED <<backend, conversations, messages, now, uuids, last, providers, txn, replicas>>

NextTurn ==
    \/ Request
    \/ chat_check_model
    \/ chat_create_conversation
    \/ chat_add_message
    \/ chat_get_message_history
    \/ chat_return
    \/ stream_generator_open
    \/ stream_generator_chunk
    \/ stream_generator_resume
    \/ stream_generator_done
    \/ stream_generator_backend_error
    \/ stream_generator_add_message
    \/ stream_generator_return
    \/ disconnect

SpecTurn == InitTurn /\ [][NextTurn]_vars

-----------------------------------------------------------------------------
(* Two add_message calls of one role at once on a conversation that has no *)
(* message of that role, statement by statement, each on its own           *)
(* connection.                                                             *)
(*                                                                         *)
(* misc/db.py (sqlite3, rollback journal): the INSERT opens the            *)
(* transaction and takes the database's write lock, held until commit; a   *)
(* second writer waits for it, or gives up with "database is locked".      *)
(* db_azure.py (SQL Server, READ COMMITTED): the INSERT locks its own row  *)
(* and reads the parent row for the foreign key; the SELECT of the preview *)
(* column reads the committed row (rcsi: the last committed version; else  *)
(* it waits for a writer of the row); the UPDATE locks the conversations   *)
(* row until commit.                                                       *)

Procs == {1, 2}
Other(p) == 3 - p
RaceBackends == {"sqlite", "azure_sql"}
RaceContents == {Str(1), <<7>>, Str(101)}
RaceConversation == 1

\* row is the id of the message the call inserted (0: none yet), undo the
\* conversations row as it was before the call's UPDATE
Call(content) ==
    [pc |-> "insert", content |-> content, row |-> 0, first |-> FALSE,
     wrote |-> FALSE, undo |-> None]

\* the preview column of the role
Preview(row, role) ==
    IF role = "user" THEN row.first_user_message ELSE row.first_assistant_message

InitRace ==
    /\ backend \in RaceBackends
    /\ conversations =
           create_conversation([conversations |-> <<>>, messages |-> <<>>],
                               RaceConversation, <<"gpt-", "4o-mini">>, None, 0).conversations
    /\ messages = <<>>
    /\ now = 0
    /\ uuids = 1
    /\ last = NoCall
    /\ providers = {}
    /\ turn = NoTurn
    /\ \E role \in {"user", "assistant"}, rcsi \in BOOLEAN,
          c1 \in RaceContents, c2 \in RaceContents :
         /\ backend = "sqlite" => ~rcsi
         /\ txn = [role |-> role, rcsi |-> rcsi, holder |-> 0,
                   calls |-> <<Call(c1), Call(c2)>>]
    /\ replicas = NoReplicas

\* the INSERT INTO messages
race_insert ==
    \E p \in Procs, t \in Later :
      /\ txn.calls[p].pc = "insert"
      /\ txn.holder # Other(p)
      /\ messages' = Append(messages,
                            NewMessage(p, RaceConversation, txn.role,
                                       txn.calls[p].content, None, t))
      /\ now' = t
      /\ txn' = [txn EXCEPT !.holder = IF backend = "sqlite" THEN p ELSE @,
                            !.calls[p].pc = "check",
                            !.calls[p].row = p]
      /\ UNCHANGED <<backend, conversations, uuids, last, providers, turn, replicas>>

\* sqlite3.OperationalError: database is locked, once the busy timeout is over
race_busy ==
    \E p \in Procs :
      /\ backend = "sqlite"
      /\ txn.calls[p].pc = "insert"
      /\ txn.holder = Other(p)
      /\ txn' = [txn EXCEPT !.calls[p].pc = "raised"]
      /\ UNCHANGED <<backend, conversations, messages, now, uuids, last, providers, turn, replicas>>

\* misc/db.py: SELECT COUNT(*) ... and if count == 1;
\* db_azure.py: SELECT first_*_message ... and if not result or not result[0]
race_check ==
    \E p \in Procs :
      /\ txn.calls[p].pc = "check"
      /\ (backend = "azure_sql" /\ ~txn.rcsi) => txn.holder # Other(p)
      /\ LET count == Cardinality(RowsOf(messages, RaceConversation, txn.role))
             column == IF txn.holder = Other(p)
                       THEN Preview(txn.calls[Other(p)].undo[1], txn.role)
                       ELSE Preview(conversations[RaceConversation], txn.role)
             first == IF backend = "sqlite" THEN sqlite_is_first(count)
                      ELSE azure_is_first(column)
         IN  txn' = [txn EXCEPT !.calls[p].pc = "update", !.calls[p].first = first]
      /\ UNCHANGED <<backend, conversations, messages, now, uuids, last, providers, turn, replicas>>

\* the UPDATE conversations
race_update ==
    \E p \in Procs, t \in Later :
      /\ txn.calls[p].pc = "update"
      /\ txn.holder # Other(p)
      /\ LET content == txn.calls[p].content
             truncated_content == IF backend = "sqlite" THEN sqlite_truncate(content)
                                  ELSE azure_truncate(content)
             SetUser == [first_user_message |-> Some(truncated_content), updated_at |-> t]
             SetAssistant == [first_assistant_message |-> Some(truncated_content),
                                          updated_at |-> t]
             Touch == [updated_at |-> t]
         IN  /\ conversations' =
                    IF txn.calls[p].first
                    THEN IF txn.role = "user"
                         THEN UpdateRow(conversations, RaceConversation, SetUser)
                         ELSE UpdateRow(conversations, RaceConversation, SetAssistant)
                    ELSE UpdateRow(conversations, RaceConversation, Touch)
             /\ txn' = [txn EXCEPT
                          !.holder = p,
                          !.calls[p].pc = "commit",
                          !.calls[p].wrote = txn.calls[p].first,
                          !.calls[p].undo = Some(conversations[RaceConversation])]
      /\ now' = t
      /\ UNCHANGED <<backend, messages, uuids, last, providers, turn, replicas>>

\* conn.commit()
race_commit ==
    \E p \in Procs :
      /\ txn.calls[p].pc = "commit"
      /\ txn' = [txn EXCEPT !.holder = 0, !.calls[p].pc = "done"]
      /\ UNCHANGED <<backend, conversations, messages, now, uuids, last, providers, turn, replicas>>

NextRace == race_insert \/ race_busy \/ race_check \/ race_update \/ race_commit

SpecRace == InitRace /\ [][NextRace]_vars

\* a connection closed on an error that leaves what the call had written
race_fail_keeping ==
    \E p \in Procs :
      /\ txn.calls[p].pc \in {"insert", "check", "update", "commit"}
      /\ txn' = [txn EXCEPT !.holder = IF @ = p THEN 0 ELSE @,
                            !.calls[p].pc = "raised"]
      /\ UNCHANGED <<backend, conversations, messages, now, uuids, last, providers, turn, replicas>>

\* the statement the call is about to run raises: the with block is left,
\* conn.close() runs in the finally clause without a commit, and the
\* transaction (the default of sqlite3 and of pyodbc: no autocommit) is
\* rolled back
race_fail ==
    \E p \in Procs :
      /\ txn.calls[p].pc \in {"insert", "check", "update", "commit"}
      /\ LET Kept(m) == m.id # txn.calls[p].row
         IN  messages' = SelectSeq(messages, Kept)
      /\ conversations' =
             IF txn.calls[p].undo # None
             THEN [conversations EXCEPT ![RaceConversation] = txn.calls[p].undo[1]]
             ELSE conversations
      /\ txn' = [txn EXCEPT !.holder = IF @ = p THEN 0 ELSE @,
                            !.calls[p].pc = "raised",
                            !.calls[p].wrote = FALSE,
                            !.calls[p].undo = None]
      /\ UNCHANGED <<backend, now, uuids, last, providers, turn, replicas>>

NextAtomic == NextRace \/ race_fail

SpecAtomic == InitRace /\ [][NextAtomic]_vars

\* what a third connection reads while the two calls run: the committed rows
\* (sqlite: the database as of the last commit; SQL Server READ COMMITTED: a
\* reader waits for, or does not see, the rows of an open transaction)
Uncommitted(p) == txn.calls[p].pc \in {"check", "update", "commit"}

VisibleMessages ==
    LET Committed(m) == ~\E p \in Procs : Uncommitted(p) /\ m.id = txn.calls[p].row
    IN  SelectSeq(messages, Committed)

VisibleConversation ==
    IF \E p \in Procs : Uncommitted(p) /\ txn.calls[p].undo # None
    THEN LET p == CHOOSE q \in Procs : Uncommitted(q) /\ txn.calls[q].undo # None
         IN  txn.calls[p].undo[1]
    ELSE conversations[RaceConversation]

-----------------------------------------------------------------------------
(* The three add_message implementations given the same calls, one after   *)
(* another, on a fresh conversation                                        *)

EmptyStore == [conversations |-> <<>>, messages |-> <<>>]
FreshConversation == 1

InitEquiv ==
    /\ backend = "sqlite"
    /\ conversations = <<>>
    /\ messages = <<>>
    /\ now = 0
    /\ uuids = 1
    /\ last = NoCall
    /\ providers = {}
    /\ turn = NoTurn
    /\ txn = NoTxn
    /\ replicas = [b \in Backends |->
                      create_conversation(EmptyStore, FreshConversation,
                                          <<"gpt-", "4o-mini">>, None, 0)]

AddMessageEverywhere ==
    /\ \A b \in Backends : Len(replicas[b].messages) < MaxMsgs
    /\ \E role \in {"user", "assistant", "system", "tool"}, content \in Contents,
          t1 \in Later :
         \E t2 \in {t \in {t1, t1 + 1} : t <= MaxTime} :
           /\ replicas' =
                  [b \in Backends |->
                      add_message(b, replicas[b], Len(replicas[b].messages) + 1,
                                  FreshConversation, role, content, None, t1, t2).store]
           /\ now' = t2
    /\ UNCHANGED <<backend, conversations, messages, uuids, last, providers, turn, txn>>

NextEquiv == AddMessageEverywhere

SpecEquiv == InitEquiv /\ [][NextEquiv]_vars

-----------------------------------------------------------------------------
(* The store driven call by call *)

InitStore ==
    /\ backend \in Backends
    /\ conversations = <<>>
    /\ messages = <<>>
    /\ now = 0
    /\ uuids = 0
    /\ last = NoCall
    /\ providers = {}
    /\ turn = NoTurn
    /\ txn = NoTxn
    /\ replicas = NoReplicas

\* what a caller appends: the preview roles with every content, the others with
\* one; to a conversation that does not exist, one message
Appends(conversation_id) ==
    IF conversation_id \in DOMAIN conversations
    THEN ({"user", "assistant"} \X Contents) \cup ({"system", "tool"} \X {Str(1)})
    ELSE {<<"user", Str(1)>>}

CreateConversation ==
    /\ uuids < MaxConvs
    /\ conversations' =
           create_conversation(Store, uuids + 1, <<"gpt-", "4o-mini">>, None, now).conversations
    /\ last' = [op |-> "create_conversation", conversation_id |-> uuids + 1,
                result |-> "id", rows |-> <<>>, args |-> <<>>]
    /\ uuids' = uuids + 1
    /\ UNCHANGED <<backend, messages, now, providers, turn, txn, replicas>>

AddMessage ==
    /\ Len(messages) < MaxMsgs
    /\ \E conversation_id \in Nameable, t1 \in Later :
         \E a \in Appends(conversation_id), t2 \in {t \in {t1, t1 + 1} : t <= MaxTime} :
         LET r == add_message(backend, Store, Len(messages) + 1, conversation_id,
                              a[1], a[2], None, t1, t2)
         IN  /\ conversations' = r.store.conversations
             /\ messages' = r.store.messages
             /\ now' = t2
             /\ last' = [op |-> "add_message", conversation_id |-> conversation_id,
                         result |-> r.result, rows |-> <<>>, args |-> <<>>]
    /\ UNCHANGED <<backend, uuids, providers, turn, txn, replicas>>

DeleteConversation ==
    /\ \E conversation_id \in Nameable :
         LET r == delete_conversation(backend, Store, conversation_id)
         IN  /\ conversations' = r.store.conversations
             /\ messages' = r.store.messages
             /\ last' = [op |-> "delete_conversation",
                         conversation_id |-> conversation_id,
                         result |-> IF r.result THEN "True" ELSE "False",
                         rows |-> <<>>, args |-> <<>>]
    /\ UNCHANGED <<backend, now, uuids, providers, turn, txn, replicas>>

\* the role and content of each returned message, in the order returned
RoleAndContent(rows) == [i \in DOMAIN rows |-> <<rows[i].role, rows[i].content>>]

GetConversation ==
    /\ \E conversation_id \in Nameable :
         \E ordered \in Orderings(MessagesOf(Store, conversation_id)) :
         LET r == get_conversation(Store, conversation_id, ordered)
         IN  last' = [op |-> "get_conversation",
                      conversation_id |-> conversation_id,
                      result |-> IF r = None THEN "None" ELSE "conversation",
                      rows |-> IF r = None THEN <<>>
                               ELSE RoleAndContent(r[1].messages),
                      args |-> <<>>]
    /\ UNCHANGED <<backend, conversations, messages, now, uuids, providers, turn, txn, replicas>>

NextStore == CreateConversation \/ AddMessage \/ DeleteConversation

SpecStore == InitStore /\ [][NextStore]_vars

\* the store served by misc/db.py, the default of db_factory
InitSqlite ==
    /\ backend = "sqlite"
    /\ conversations = <<>>
    /\ messages = <<>>
    /\ now = 0
    /\ uuids = 0
    /\ last = NoCall
    /\ providers = {}
    /\ turn = NoTurn
    /\ txn = NoTxn
    /\ replicas = NoReplicas

SpecSqlite == InitSqlite /\ [][NextStore]_vars

\* the two stores db_factory selects between (misc/db.py, db_azure.py)
InitSql ==
    /\ backend \in RaceBackends
    /\ conversations = <<>>
    /\ messages = <<>>
    /\ now = 0
    /\ uuids = 0
    /\ last = NoCall
    /\ providers = {}
    /\ turn = NoTurn
    /\ txn = NoTxn
    /\ replicas = NoReplicas

SpecSql == InitSql /\ [][NextStore]_vars

-----------------------------------------------------------------------------
(* What is observed of a turn *)

\* the assistant rows the turn has added to its conversation
TurnAssistantRows ==
    {i \in DOMAIN messages :
        /\ i > turn.rows0
        /\ messages[i].conversation_id = turn.conversation_id
        /\ messages[i].role = "assistant"}

\* the positions of the events with done=true
DoneEvents == {i \in DOMAIN turn.events : turn.events[i].done}

\* the successful terminal event has been handed to the caller
Succeeded ==
    \E i \in DOMAIN turn.events : turn.events[i].done /\ turn.events[i].error = None

\* the model names no backend, or a backend that is not registered
Unavailable(registry, model) ==
    \/ get_provider_for_model(model) = None
    \/ get_provider_for_model(model)[1] \notin registry

\* the messages of a conversation with a role, in canonical order
InOrder(conversation_id, role) ==
    LET Mine(m) == m.conversation_id = conversation_id /\ m.role = role
        rows == SelectSeq(messages, Mine)
    IN  OrderByCreatedAt(rows, 0, MaxCreatedAt(rows))

-----------------------------------------------------------------------------
(* C1..C4, C10: the chat turn (SpecTurn) *)

\* C1: the event sequence of a turn holds exactly one event with done=true, it
\* is the last event, and every event before it has done=false, on every path
\* (stream exhausted, backend error, error while persisting).
C1_OneTerminalEvent ==
    /\ \A i \in DoneEvents : i = Len(turn.events)
    /\ turn.pc \in {"COMPLETE", "FAILED"} => Cardinality(DoneEvents) = 1

\* C2: in every state where the caller has received the successful done=true
\* event, the assistant message of the turn (the accumulated text, attributed
\* to the requested model) is already in the store.
C2_PersistedBeforeDone ==
    Succeeded =>
        \E i \in TurnAssistantRows :
            /\ messages[i].content = turn.full_content
            /\ messages[i].model = Some(turn.model)

\* C3: a turn whose backend stream was exhausted without error ends with
\* exactly one assistant message persisted by that turn: never zero, never two.
C3_ExactlyOneAssistantMessage ==
    (turn.pc \in Terminal /\ Succeeded) => Cardinality(TurnAssistantRows) = 1

\* C4: once an error occurred while streaming, the last event has done=true and
\* carries the error text and the conversation id, the turn has persisted no
\* assistant message, and the response status is 200.
C4_ErrorEndsTurnWithoutPersisting ==
    turn.e # None =>
        LET event == turn.events[Len(turn.events)]
        IN  /\ event.done
            /\ event.error = turn.e
            /\ event.conversation_id = Some(turn.conversation_id)
            /\ TurnAssistantRows = {}
            /\ turn.status = Some(200)

\* C4 happens: the backend failed after text had been accumulated
C4_Witness ==
    /\ turn.pc = "FAILED"
    /\ turn.e = Some("BackendStreamError")
    /\ turn.full_content # <<>>
    /\ Len(turn.events) >= 2

\* C10: a request whose model is unsupported or whose backend is unavailable
\* never gets past the availability check: it ends rejected with status 400,
\* the conversations are as they were when it arrived, no message is appended
\* and no event is emitted.
C10_InvalidModelRejectedBeforePersistence ==
    (turn.pc # "idle" /\ Unavailable(providers, turn.model)) =>
        /\ turn.pc \in {"CREATED", "rejected"}
        /\ turn.pc = "rejected" => turn.status = Some(400)
        /\ turn.pc = "CREATED" => turn.status = None
        /\ conversations = turn.listing0
        /\ Len(messages) = turn.rows0
        /\ turn.events = <<>>

\* C10 happens: an unsupported model was rejected while a conversation exists
C10_Witness ==
    /\ turn.pc = "rejected"
    /\ get_provider_for_model(turn.model) = None
    /\ conversations # <<>>

-----------------------------------------------------------------------------
\* C11: a failure before the backend stream is open (user-message append,
\* history assembly, resolving the backend and opening its stream) reaches the
\* caller as a synchronous error with no event stream; only a failure after
\* the stream is open is reported as an in-band terminal event.
C11_FailureBeforeStreamingIsSynchronous ==
    /\ turn.pc = "error" => (turn.status = Some(500) /\ turn.events = <<>>)
    /\ (turn.e # None /\ ~turn.opened) =>
           (turn.status # Some(200) /\ turn.events = <<>>)

\* C12: when the caller disconnects while the turn is streaming (after any
\* number of chunks, the backend stream not exhausted, no error), the turn
\* persists no assistant message, partial or full.
C12_DisconnectPersistsNothing ==
    (turn.pc = "closed" /\ DoneEvents = {}) => TurnAssistantRows = {}

\* C12 happens: the caller left after text had been accumulated
C12_Witness ==
    /\ turn.pc = "closed"
    /\ DoneEvents = {}
    /\ turn.received >= 1
    /\ turn.full_content # <<>>

\* the steps a turn may take from one position to the next
TurnEdges ==
    {<<"CREATED", "checked">>, <<"CREATED", "rejected">>,
     <<"checked", "resolved">>,
     <<"resolved", "USER_APPENDED">>, <<"resolved", "error">>,
     <<"USER_APPENDED", "HISTORY_READY">>, <<"USER_APPENDED", "error">>,
     <<"HISTORY_READY", "STREAMING">>,
     <<"STREAMING", "STREAMING">>, <<"STREAMING", "yield_chunk">>,
     <<"STREAMING", "yield_done">>, <<"STREAMING", "yield_error">>,
     <<"STREAMING", "closed">>,
     <<"yield_chunk", "STREAMING">>, <<"yield_chunk", "closed">>,
     <<"yield_done", "COMPLETE">>, <<"yield_done", "yield_error">>,
     <<"yield_done", "closed">>,
     <<"yield_error", "FAILED">>, <<"yield_error", "closed">>}

\* what every step does to the position of the turn
TurnStepInOrder ==
    /\ turn.pc \in Terminal \cup {"idle"} =>
          /\ turn'.pc = "CREATED"
          /\ conversations' = conversations
          /\ messages' = messages
    /\ turn.pc \notin Terminal \cup {"idle"} =>
          /\ <<turn.pc, turn'.pc>> \in TurnEdges
          /\ turn'.conversation_session_id = turn.conversation_session_id
          /\ turn'.rows0 = turn.rows0
    /\ turn'.pc = "USER_APPENDED" =>
          /\ Len(messages') = turn.rows0 + 1
          /\ messages'[Len(messages')].role = "user"
          /\ messages'[Len(messages')].content = turn.message
          /\ turn'.history = None
    /\ turn'.pc = "HISTORY_READY" =>
          /\ turn.pc = "USER_APPENDED"
          /\ turn'.history # None
          /\ ~turn'.opened
    /\ turn'.opened => (turn'.history # None /\ turn'.status = Some(200))

\* C13: a turn goes CREATED, USER_APPENDED, HISTORY_READY, STREAMING in that
\* order without skipping one (the user message is stored before the history
\* is assembled, the history is assembled before the backend stream is
\* opened), ends in at most one of COMPLETE and FAILED, and once it has ended
\* it takes no further step and changes the store no more: the only thing
\* that follows is the arrival of another request.
C13_TurnStateMachine == [][TurnStepInOrder]_vars

\* C13 happens: a turn went all the way to COMPLETE
C13_Witness ==
    /\ turn.pc = "COMPLETE"
    /\ turn.received >= 1
    /\ turn.history # None
    /\ Cardinality(TurnAssistantRows) = 1

\* the text an item of the backend stream carries
ItemText(chunk) == IF chunk.text = None THEN <<>> ELSE chunk.text[1]

\* C14: the non-terminal events are, one for one and in the same order, the
\* items received from the backend stream, each event carrying its item's
\* text (empty content for an item without text): nothing is reordered,
\* merged, duplicated or skipped, and no non-terminal event follows a
\* terminal one.
C14_OneEventPerItemInOrder ==
    LET NonTerminal(event) == ~event.done
        sent == SelectSeq(turn.events, NonTerminal)
    IN  /\ Len(sent) = Len(turn.items)
        /\ \A i \in DOMAIN sent :
              /\ sent[i].content = ItemText(turn.items[i])
              /\ turn.events[i] = sent[i]
              /\ sent[i].conversation_id = None
              /\ sent[i].error = None

\* C14 happens: an item without text, then one with text, then the end
C14_Witness ==
    /\ turn.pc = "COMPLETE"
    /\ Len(turn.items) = 2
    /\ ItemText(turn.items[1]) = <<>>
    /\ ItemText(turn.items[2]) # <<>>
    /\ Len(turn.events) = 3

-----------------------------------------------------------------------------
(* C5, C6, C8, C9: the store called one call at a time *)

\* C5: a preview is written by the first append of its role and never changes
\* afterwards: a later append of the same role leaves it as it is, whatever the
\* contents (the empty string included).
C5_PreviewWrittenOnce ==
    [][\A c \in DOMAIN conversations \cap DOMAIN conversations' :
         \A role \in {"user", "assistant"} :
           /\ RowsOf(messages, c, role) # {} =>
                  Preview(conversations'[c], role) = Preview(conversations[c], role)
           /\ RowsOf(messages', c, role) # {} =>
                  Preview(conversations'[c], role) # None]_vars

\* C6: for every conversation and each of the roles user and assistant, the
\* preview is the first 100 characters of the earliest message of the role in
\* canonical order, unset when there is none; a content longer than 100
\* characters gives a preview of length exactly 100.
C6_PreviewIsEarliest ==
    \A c \in DOMAIN conversations : \A role \in {"user", "assistant"} :
        LET rows == InOrder(c, role)
            preview == Preview(conversations[c], role)
        IN  IF rows = <<>> THEN preview = None
            ELSE /\ preview # None
                 /\ Len(preview[1]) <= PREVIEW_LEN
                 /\ Len(preview[1]) <= Len(rows[1].content)
                 /\ \A k \in 1..Len(preview[1]) : preview[1][k] = rows[1].content[k]
                 /\ Len(rows[1].content) <= PREVIEW_LEN =>
                        Len(preview[1]) = Len(rows[1].content)
                 /\ Len(rows[1].content) > PREVIEW_LEN => Len(preview[1]) = PREVIEW_LEN

\* C6 happens: a 101-character user message, then another one
C6_Witness ==
    \E c \in DOMAIN conversations :
        LET rows == InOrder(c, "user")
        IN  /\ Len(rows) = 2
            /\ Len(rows[1].content) = 101
            /\ rows[2].content = Str(1)
            /\ Len(conversations[c].first_user_message[1]) = 100

\* what a step does to updated_at
LastModifiedStep ==
    \A c \in DOMAIN conversations \cap DOMAIN conversations' :
        /\ conversations'[c].updated_at >= conversations[c].updated_at
        /\ conversations'[c].updated_at >= conversations'[c].created_at
        /\ (/\ last'.op = "add_message"
            /\ last'.conversation_id = c
            /\ Len(messages') = Len(messages) + 1) =>
               /\ conversations'[c].updated_at = now'
               /\ conversations'[c].updated_at >= messages'[Len(messages')].created_at

\* C17: updated_at is never below created_at and never decreases, and an
\* append of any role (user, assistant, system, or one the code does not
\* know) leaves it at the time of that append.
C17_LastModifiedAdvances == [][LastModifiedStep]_vars

\* C17 happens: a message of an unknown role was appended after the clock moved
C17_Witness ==
    /\ last.op = "add_message"
    /\ last.conversation_id \in DOMAIN conversations
    /\ messages # <<>>
    /\ messages[Len(messages)].role = "tool"
    /\ messages[Len(messages)].conversation_id = last.conversation_id
    /\ conversations[last.conversation_id].created_at = 0
    /\ conversations[last.conversation_id].updated_at = 1

\* C8: no stored message refers to a conversation that does not exist, and
\* once delete_conversation(c) has returned no message of c remains.
C8_DeleteCascades ==
    /\ last.op = "delete_conversation" =>
           \A i \in DOMAIN messages : messages[i].conversation_id # last.conversation_id
    /\ \A i \in DOMAIN messages : messages[i].conversation_id \in DOMAIN conversations

\* C9: add_message on a conversation id that does not exist inserts no row and
\* ends with a failure, not with a message id.
C9_AppendToMissingConversation ==
    [][(/\ last'.op = "add_message"
        /\ last'.conversation_id \notin DOMAIN conversations)
       => (/\ messages' = messages
           /\ last'.result \notin {"id", "message", "None"})]_vars

-----------------------------------------------------------------------------
(* C7: two calls at once (SpecRace) *)

RaceOver == \A p \in Procs : txn.calls[p].pc \in {"done", "raised"}

\* C7: when the two concurrent calls are over, the preview is the first 100
\* characters of the message that is earliest in canonical order and exactly
\* one of the calls has written it, in every interleaving of their statements.
C7_RaceFreePreview ==
    RaceOver =>
        LET rows == InOrder(RaceConversation, txn.role)
        IN  /\ Preview(conversations[RaceConversation], txn.role) =
                   Some(Slice(rows[1].content, PREVIEW_LEN))
            /\ Cardinality({p \in Procs : txn.calls[p].wrote}) = 1

-----------------------------------------------------------------------------
(* C15: the three implementations side by side (SpecEquiv) *)

\* the message list as a reader sees it: role and content, in order
Listing(S) == [i \in DOMAIN S.messages |->
                 <<S.messages[i].role, S.messages[i].content>>]

\* C15: after the same sequence of add_message calls on a fresh conversation
\* the three implementations hold the same two previews and the same message
\* list.
C15_BackendsAgree ==
    \A b1 \in Backends, b2 \in Backends :
        /\ Listing(replicas[b1]) = Listing(replicas[b2])
        /\ \A role \in {"user", "assistant"} :
              Preview(replicas[b1].conversations[FreshConversation], role) =
              Preview(replicas[b2].conversations[FreshConversation], role)

-----------------------------------------------------------------------------
(* C16: calls that may fail at any statement (SpecAtomic) *)

\* C16: what is visible in the store is, at every moment, the work of the
\* calls that committed and nothing else: the message of a call is visible
\* only after its commit, a call that failed at any statement leaves neither
\* its message nor a change of the conversation, and whenever a message is
\* visible the conversation's updated_at and preview show its append.
C16_AllOrNothing ==
    LET msgs == VisibleMessages
        conv == VisibleConversation
    IN  /\ {msgs[i].id : i \in DOMAIN msgs} =
               {p \in Procs : txn.calls[p].pc = "done"}
        /\ msgs = <<>> =>
               conv = NewConversation(<<"gpt-", "4o-mini">>, None, 0)
        /\ msgs # <<>> =>
               /\ Preview(conv, txn.role) # None
               /\ \A i \in DOMAIN msgs : conv.updated_at >= msgs[i].created_at
        /\ \A p \in Procs :
               txn.calls[p].pc = "raised" =>
                   \A i \in DOMAIN messages : messages[i].id # p

\* C16 happens: a call failed after its INSERT and UPDATE, the other committed
C16_Witness ==
    \E p \in Procs :
        /\ txn.calls[p].pc = "raised"
        /\ txn.calls[p].row = p
        /\ txn.calls[Other(p)].pc = "done"
        /\ Len(messages) = 1

-----------------------------------------------------------------------------
(* The history assemblers applied to stored conversations (SpecHistory).    *)
(* A stored conversation is what add_message leaves after n appends, one   *)
(* per second, of contents that differ in length.                          *)

MaxStored == 25

\* crud.get_message_history: threshold: int = 20
default_threshold == 20

Shapes == {"dialogue", "tool", "system"}
Prompts == {None, Some(<<>>), Some(Str(3))}

\* a dialogue of alternating turns; one with a tool message third; one that
\* opens with a system message
RoleAt(shape, i) ==
    IF shape = "tool" /\ i = 3 THEN "tool"
    ELSE IF shape = "system" /\ i = 1 THEN "system"
    ELSE IF i % 2 = 1 THEN "user" ELSE "assistant"

\* the rows n calls of add_message insert, the i-th at second i
StoredMessages(shape, n) ==
    [i \in 1..n |-> NewMessage(i, FreshConversation, RoleAt(shape, i), Str(i), None, i)]

\* the preview add_message wrote for a role: its first content, short enough
\* to be kept whole
StoredPreview(shape, n, role) ==
    LET with == {i \in 1..n : RoleAt(shape, i) = role}
    IN  IF with = {} THEN None
        ELSE Some(Str(CHOOSE i \in with : \A j \in with : i <= j))

\* the row create_conversation inserted and those n calls updated
StoredConversation(shape, system_prompt, n) ==
    [NewConversation(<<"gpt-", "4o-mini">>, system_prompt, 0) EXCEPT
        !.updated_at = n,
        !.first_user_message = StoredPreview(shape, n, "user"),
        !.first_assistant_message = StoredPreview(shape, n, "assistant")]

InitHistory ==
    /\ backend \in {"sqlite", "orm"}
    /\ \E shape \in Shapes, system_prompt \in Prompts, n \in 0..MaxStored :
         /\ conversations = [c \in {FreshConversation} |->
                                StoredConversation(shape, system_prompt, n)]
         /\ messages = StoredMessages(shape, n)
         /\ now = n
    /\ uuids = FreshConversation
    /\ last = NoCall
    /\ providers \in Registries
    /\ turn = NoTurn
    /\ txn = NoTxn
    /\ replicas = NoReplicas

\* LLMServiceProvider.get_message_history, which reads through misc/db.py
GetMessageHistory ==
    /\ backend = "sqlite"
    /\ \E conversation_id \in Nameable, summarize \in BOOLEAN,
          summary \in brief_summary_of_conversation_history(providers) :
         \E ordered \in Orderings(MessagesOf(Store, conversation_id)) :
         last' = [op |-> "get_message_history",
                  conversation_id |-> conversation_id,
                  result |-> run_get_message_history(Store, conversation_id, ordered,
                                                     summarize, summary),
                  rows |-> <<>>,
                  args |-> [summarize |-> summarize, summary |-> summary]]
    /\ UNCHANGED <<backend, conversations, messages, now, uuids, providers, turn, txn, replicas>>

\* crud.get_message_history, which reads through the ORM
CrudGetMessageHistory ==
    /\ backend = "orm"
    /\ \E conversation_id \in Nameable, summarize \in BOOLEAN :
         \E ordered \in Orderings(MessagesOf(Store, conversation_id)) :
         last' = [op |-> "crud.get_message_history",
                  conversation_id |-> conversation_id,
                  result |-> [returned |-> Some(crud_get_message_history(
                                               Store, conversation_id, ordered,
                                               summarize, default_threshold)),
                              summarized |-> <<>>],
                  rows |-> <<>>,
                  args |-> [summarize |-> summarize, summary |-> None]]
    /\ UNCHANGED <<backend, conversations, messages, now, uuids, providers, turn, txn, replicas>>

NextHistory == GetMessageHistory \/ CrudGetMessageHistory

SpecHistory == InitHistory /\ [][NextHistory]_vars

\* the projected messages of the conversation the last call named
Projected == Project(MessagesOf(Store, last.conversation_id))

-----------------------------------------------------------------------------
(* C18: reading back what was appended (SpecRead) *)

\* the store of misc/db.py with its callers reading conversations back
NextRead == NextStore \/ GetConversation

SpecRead == InitSqlite /\ [][NextRead]_vars

\* C18: get_conversation returns the messages of an existing conversation with
\* the most recently appended one, role and content as they were passed, after
\* every earlier message, also when appends share a created_at
C18_AppendedMessageReadLast ==
    (last.op = "get_conversation" /\ last.result = "conversation"
        /\ MessagesOf(Store, last.conversation_id) # <<>>)
    => LET appended == MessagesOf(Store, last.conversation_id)
           newest == appended[Len(appended)]
       IN  /\ Len(last.rows) = Len(appended)
           /\ last.rows[Len(last.rows)] = <<newest.role, newest.content>>

-----------------------------------------------------------------------------
(* C19, C20: the assembled history (SpecHistory) *)

\* C19: where no summarization applies, each assembler (the one the turn uses
\* and the ORM's) returns the stored system prompt as a first system entry
\* followed by the projected messages when a prompt is stored and no projected
\* message has role system, and the projected messages alone otherwise
C19_SystemPromptPrepended ==
    (/\ last.op \in {"get_message_history", "crud.get_message_history"}
     /\ last.conversation_id \in DOMAIN conversations
     /\ \/ ~last.args.summarize
        \/ Len(Projected) + 1 <= CONVERSATION_MESSAGES_THRESHOLD)
    => LET system_prompt == conversations[last.conversation_id].system_prompt
       IN  last.result.returned =
               Some(IF ~Falsy(system_prompt) /\ ~HasSystem(Projected)
                    THEN <<Entry("system", system_prompt[1])>> \o Projected
                    ELSE Projected)

\* C20: with summarize set and n projected messages, n over the threshold, the
\* summarizer is called exactly once, with the first n - threshold of them;
\* where it succeeds the call returns threshold + 1 entries: a system entry
\* "Summary of previous conversation: ", newline, the summary, and then the
\* last threshold projected messages unchanged and in order
C20_SummarizedOnceOverOlder ==
    (/\ last.op = "get_message_history"
     /\ last.conversation_id \in DOMAIN conversations
     /\ last.args.summarize
     /\ Len(Projected) > CONVERSATION_MESSAGES_THRESHOLD)
    => LET n == Len(Projected)
           returned == last.result.returned[1]
       IN  /\ last.result.summarized =
                  <<SubSeq(Projected, 1, n - CONVERSATION_MESSAGES_THRESHOLD)>>
           /\ last.args.summary # None =>
                /\ Len(returned) = CONVERSATION_MESSAGES_THRESHOLD + 1
                /\ returned[1] =
                       Entry("system", <<"Summary of previous conversation: \n",
                                         last.args.summary[1]>>)
                /\ \A i \in 1..CONVERSATION_MESSAGES_THRESHOLD :
                       returned[i + 1] =
                           Projected[n - CONVERSATION_MESSAGES_THRESHOLD + i]

\* five messages over the threshold were summarized and the call returned
C20_Witness ==
    /\ last.op = "get_message_history"
    /\ last.args.summarize
    /\ last.args.summary # None
    /\ Len(Projected) = CONVERSATION_MESSAGES_THRESHOLD + 5
    /\ Len(last.result.summarized) = 1
    /\ Len(last.result.summarized[1]) = 5
    /\ Len(last.result.returned[1]) = CONVERSATION_MESSAGES_THRESHOLD + 1

\* C21: with summarize false, or with at most threshold projected messages
\* (exactly threshold and none included), the assembler returns the projected
\* list unchanged and calls no summarizer; it never hands the summarizer an
\* empty list
C21_ShortOrUnsummarizedUnchanged ==
    (last.op = "get_message_history" /\ last.conversation_id \in DOMAIN conversations)
    => /\ (~last.args.summarize
             \/ Len(Projected) <= CONVERSATION_MESSAGES_THRESHOLD)
           => /\ last.result.returned = Some(Projected)
              /\ last.result.summarized = <<>>
       /\ \A i \in DOMAIN last.result.summarized : last.result.summarized[i] # <<>>

\* a long conversation was assembled with summarize false
C21_Witness ==
    /\ last.op = "get_message_history"
    /\ ~last.args.summarize
    /\ Len(Projected) > CONVERSATION_MESSAGES_THRESHOLD
    /\ last.result.returned = Some(Projected)

C23_AbsentConversationRaises ==
    (/\ last.op \in {"get_message_history", "crud.get_message_history"}
     /\ last.conversation_id \notin DOMAIN conversations)
    => last.result.returned = None

\* the stored messages of the conversation the last call named whose role is
\* user, assistant or system
Kept ==
    {i \in DOMAIN messages :
        /\ messages[i].conversation_id = last.conversation_id
        /\ messages[i].role \in {"user", "assistant", "system"}}

\* the place of a kept message among the kept ones, by creation time
PlaceOf(i) ==
    1 + Cardinality({j \in Kept : messages[j].created_at < messages[i].created_at})

\* C24: the history holds exactly the stored messages of role user, assistant
\* or system, as role and content, by ascending creation time; a message of
\* another role is dropped, raises nothing and is not counted against the
\* threshold
C24_ProjectionKeepsKnownRoles ==
    (last.op = "get_message_history" /\ last.conversation_id \in DOMAIN conversations)
    => /\ last.result.returned # None
       /\ (~last.args.summarize \/ Cardinality(Kept) <= CONVERSATION_MESSAGES_THRESHOLD)
           => LET returned == last.result.returned[1]
              IN  /\ Len(returned) = Cardinality(Kept)
                  /\ \A i \in Kept :
                         returned[PlaceOf(i)] =
                             [role |-> messages[i].role, content |-> messages[i].content]
       /\ last.result.summarized # <<>>
           => Cardinality(Kept) > CONVERSATION_MESSAGES_THRESHOLD

\* a conversation of threshold + 1 stored messages, one of them a tool message,
\* was assembled with summarize set and came back whole without it
C24_Witness ==
    /\ last.op = "get_message_history"
    /\ last.args.summarize
    /\ Len(MessagesOf(Store, last.conversation_id)) = CONVERSATION_MESSAGES_THRESHOLD + 1
    /\ Cardinality(Kept) = CONVERSATION_MESSAGES_THRESHOLD
    /\ Len(last.result.returned[1]) = CONVERSATION_MESSAGES_THRESHOLD
    /\ last.result.summarized = <<>>

-----------------------------------------------------------------------------
(* C25: the history of a conversation read twice (SpecAssemble) *)

\* the store of misc/db.py with the assembler called between its appends
NextAssemble == NextStore \/ GetMessageHistory

SpecAssemble == InitSqlite /\ [][NextAssemble]_vars

\* a call of the assembler that follows one with the same arguments and the
\* same summarizer outcome returns what that one returned and leaves the
\* conversations and the messages as they were
SameHistoryTwice ==
    (/\ last.op = "get_message_history"
     /\ last'.op = "get_message_history"
     /\ last'.conversation_id = last.conversation_id
     /\ last'.args = last.args)
    => /\ last'.result.returned = last.result.returned
       /\ conversations' = conversations
       /\ messages' = messages

-----------------------------------------------------------------------------
(* C26: a model that cannot be served (SpecTurn) *)

\* the model name resolves to no backend
UnknownModel(model) == get_provider_for_model(model) = None

\* the model name resolves to a backend that is not registered
NotInitialized(registry, model) ==
    /\ get_provider_for_model(model) # None
    /\ get_provider_for_model(model)[1] \notin registry

\* C26: a request for a model of a known backend that is not initialized gets
\* an outcome that differs from the outcome for an unknown model, from
\* stream_chat and from the chat endpoint's model check alike
C26_NotInitializedToldApartFromUnknown ==
    \A known \in RequestModels, unknown \in RequestModels :
        (NotInitialized(providers, known) /\ UnknownModel(unknown))
        => /\ stream_chat(providers, known) # stream_chat(providers, unknown)
           /\ (turn.pc = "rejected" /\ turn.model = known)
               => Some([status |-> turn.status[1], detail |-> turn.detail[1]])
                      # chat_check_model_response(providers, unknown)

-----------------------------------------------------------------------------
(* The provider registry: its construction from the credentials, and the   *)
(* calls that resolve a model name against it (SpecRegistry).              *)

\* a key as passed or as found in the environment: absent, empty, or a text
Keys == {None, Some(<<>>), Some(Str(3))}

\* the constructor's arguments and the two environment variables
Credentials ==
    [openai_api_key : Keys, OPENAI_API_KEY : Keys,
     anthropic_api_key : Keys, ANTHROPIC_API_KEY : Keys]

\* OpenAIChat.__init__ / AnthropicChat.__init__: api_key or os.getenv(...);
\* TRUE where the client is built, FALSE where ValueError is raised
provider_constructed(api_key, env) ==
    LET key == IF ~Falsy(api_key) THEN api_key ELSE env
    IN  ~Falsy(key)

\* LLMServiceProvider.__init__: self.providers
LLMServiceProvider(c) ==
    {p \in {OPENAI} : provider_constructed(c.openai_api_key, c.OPENAI_API_KEY)}
    \cup {p \in {ANTHROPIC} :
             provider_constructed(c.anthropic_api_key, c.ANTHROPIC_API_KEY)}

\* names a caller can ask for: every key of the table, names that only a
\* prefix rule resolves, and names nothing resolves
ModelNames ==
    DOMAIN MODEL_PROVIDER_MAP
    \cup {<<"gpt-", "5">>, <<"text-", "davinci-003">>, <<"text-", "">>,
          <<"claude-", "4">>, <<"GPT-", "4o">>, <<"", "o1">>,
          <<"nonexistent-", "model">>}

InitRegistry ==
    /\ backend = "sqlite"
    /\ conversations = <<>>
    /\ messages = <<>>
    /\ now = 0
    /\ uuids = 0
    /\ \E c \in Credentials :
         /\ providers = LLMServiceProvider(c)
         /\ last = [op |-> "__init__", conversation_id |-> UnknownId,
                    result |-> "constructed", rows |-> <<>>,
                    args |-> [credentials |-> c, model |-> None]]
    /\ turn = NoTurn
    /\ txn = NoTxn
    /\ replicas = NoReplicas

GetProviderForModel ==
    /\ \E model \in ModelNames :
         last' = [op |-> "get_provider_for_model", conversation_id |-> UnknownId,
                  result |-> get_provider_for_model(model), rows |-> <<>>,
                  args |-> [credentials |-> last.args.credentials,
                            model |-> Some(model)]]
    /\ UNCHANGED <<backend, conversations, messages, now, uuids, providers, turn, txn, replicas>>

StreamChat ==
    /\ \E model \in ModelNames :
         last' = [op |-> "stream_chat", conversation_id |-> UnknownId,
                  result |-> stream_chat(providers, model), rows |-> <<>>,
                  args |-> [credentials |-> last.args.credentials,
                            model |-> Some(model)]]
    /\ UNCHANGED <<backend, conversations, messages, now, uuids, providers, turn, txn, replicas>>

GetAvailableModels ==
    /\ last' = [op |-> "get_available_models", conversation_id |-> UnknownId,
                result |-> get_available_models(providers), rows |-> <<>>,
                args |-> [credentials |-> last.args.credentials, model |-> None]]
    /\ UNCHANGED <<backend, conversations, messages, now, uuids, providers, turn, txn, replicas>>

NextRegistry == GetProviderForModel \/ StreamChat \/ GetAvailableModels

SpecRegistry == InitRegistry /\ [][NextRegistry]_vars

-----------------------------------------------------------------------------
(* C27, C28: resolution and the registry (SpecRegistry) *)

\* C27: get_provider_for_model gives, for a name that is a key of the table,
\* the backend the table holds, whatever its prefix; for any other name, OpenAI
\* where it starts with "gpt-" or "text-" and Anthropic where it starts with
\* "claude-"; for the rest it raises Unsupported; every name gets one outcome
C27_ResolutionOrder ==
    last.op = "get_provider_for_model"
    => LET model == last.args.model[1]
       IN  last.result =
               IF model \in DOMAIN MODEL_PROVIDER_MAP
               THEN Some(MODEL_PROVIDER_MAP[model])
               ELSE IF model[1] \in {"gpt-", "text-"} THEN Some("openai")
               ELSE IF model[1] = "claude-" THEN Some("anthropic")
               ELSE None

\* a name outside the table was resolved to OpenAI by its prefix "text-"
C27_Witness ==
    /\ last.op = "get_provider_for_model"
    /\ last.args.model[1] \notin DOMAIN MODEL_PROVIDER_MAP
    /\ last.args.model[1][1] = "text-"
    /\ last.result = Some("openai")

\* a backend has a credential: a non-empty key was passed or is in the
\* environment
HasCredential(c, p) ==
    IF p = "openai"
    THEN ~Falsy(c.openai_api_key) \/ ~Falsy(c.OPENAI_API_KEY)
    ELSE ~Falsy(c.anthropic_api_key) \/ ~Falsy(c.ANTHROPIC_API_KEY)

\* C28: the registry is constructed for every combination of credentials and
\* holds exactly the backends that have one; get_available_models lists the
\* initialized backends only, each with exactly its models of the table
C28_RegistryOmitsUninitialized ==
    last.op \in {"__init__", "get_provider_for_model", "stream_chat",
                 "get_available_models"}
    => /\ providers = {p \in {"openai", "anthropic"} :
                           HasCredential(last.args.credentials, p)}
       /\ last.op = "get_available_models"
           => /\ DOMAIN last.result = providers
              /\ \A p \in providers :
                     last.result[p] = {model \in DOMAIN MODEL_PROVIDER_MAP :
                                          MODEL_PROVIDER_MAP[model] = p}

\* the models were listed by a service that has an OpenAI key and no
\* Anthropic key
C28_Witness ==
    /\ last.op = "get_available_models"
    /\ providers = {"openai"}
    /\ DOMAIN last.result = {"openai"}
    /\ <<"gpt-", "4o-mini">> \in last.result["openai"]

-----------------------------------------------------------------------------
(* Appends and edits among several conversations (SpecFrame).  The title   *)
(* and the metadata of a conversation are columns the model leaves out.   *)

\* the ids of the conversations there are
FrameConversations == {1, 2}

\* crud.update_conversation: the system prompt where one is passed, and
\* updated_at; None where no conversation has the id
update_conversation(S, conversation_id, system_prompt, t) ==
    IF conversation_id \notin DOMAIN S.conversations
    THEN [store |-> S, result |-> "None"]
    ELSE LET Row == IF system_prompt # None
                    THEN [system_prompt |-> system_prompt, updated_at |-> t]
                    ELSE [updated_at |-> t]
         IN  [store |-> [S EXCEPT !.conversations =
                            UpdateRow(S.conversations, conversation_id, Row)],
              result |-> "conversation"]

\* conversations created one after the other, none with a message yet
InitFrame ==
    /\ backend \in Backends
    /\ conversations = [c \in FrameConversations |->
                           NewConversation(<<"gpt-", "4o-mini">>, None, 0)]
    /\ messages = <<>>
    /\ now = 0
    /\ uuids = Cardinality(FrameConversations)
    /\ last = NoCall
    /\ providers = {}
    /\ turn = NoTurn
    /\ txn = NoTxn
    /\ replicas = NoReplicas

\* update_conversation exists in the ORM layer alone
UpdateConversation ==
    /\ backend = "orm"
    /\ \E conversation_id \in Nameable, system_prompt \in {None, Some(Str(3))},
          t \in Later :
         LET r == update_conversation(Store, conversation_id, system_prompt, t)
         IN  /\ conversations' = r.store.conversations
             /\ messages' = r.store.messages
             /\ now' = t
             /\ last' = [op |-> "update_conversation",
                         conversation_id |-> conversation_id,
                         result |-> r.result, rows |-> <<>>, args |-> <<>>]
    /\ UNCHANGED <<backend, uuids, providers, turn, txn, replicas>>

\* what a caller appends here: a short user message, a long assistant message
\* and a message with no preview
FrameAppends == {<<"user", Str(1)>>, <<"assistant", Str(101)>>, <<"tool", Str(1)>>}

\* add_message on one of the conversations, its statements within one second
AppendAmong ==
    /\ Len(messages) < MaxMsgs
    /\ \E conversation_id \in 1..uuids, a \in FrameAppends, t \in Later :
         LET r == add_message(backend, Store, Len(messages) + 1, conversation_id,
                              a[1], a[2], None, t, t)
         IN  /\ conversations' = r.store.conversations
             /\ messages' = r.store.messages
             /\ now' = t
             /\ last' = [op |-> "add_message", conversation_id |-> conversation_id,
                         result |-> r.result, rows |-> <<>>, args |-> <<>>]
    /\ UNCHANGED <<backend, uuids, providers, turn, txn, replicas>>

NextFrame == AppendAmong \/ UpdateConversation

SpecFrame == InitFrame /\ [][NextFrame]_vars

-----------------------------------------------------------------------------
(* C29: what an append and an edit leave alone (SpecFrame) *)

\* the columns of a conversation that hold its previews
Previews(row) == <<row.first_user_message, row.first_assistant_message>>

\* an append keeps every message there was as it was and every conversation
\* but its own as it was; an edit keeps every message and every preview
FrameKept ==
    /\ last'.op = "add_message"
       => /\ Len(messages') >= Len(messages)
          /\ \A i \in DOMAIN messages : messages'[i] = messages[i]
          /\ \A c \in DOMAIN conversations \ {last'.conversation_id} :
                 /\ c \in DOMAIN conversations'
                 /\ conversations'[c] = conversations[c]
                 /\ MessagesOf([conversations |-> conversations', messages |-> messages'], c)
                        = MessagesOf(Store, c)
    /\ last'.op = "update_conversation"
       => /\ messages' = messages
          /\ DOMAIN conversations' = DOMAIN conversations
          /\ \A c \in DOMAIN conversations :
                 Previews(conversations'[c]) = Previews(conversations[c])

\* C29: add_message(c, ...) leaves the id, role, content and timestamp of
\* every existing message and every conversation other than c (previews,
\* last-modified, messages) unchanged; update_conversation changes no message
\* and no preview
C29_AppendsAndEditsKeepTheRest == [][FrameKept]_vars

\* a conversation with a message and a preview saw an append to another one,
\* later than its own last change
C29_Witness ==
    /\ last.op = "add_message"
    /\ last.result # "None"
    /\ Len(messages) = 2
    /\ messages[1].conversation_id # last.conversation_id
    /\ messages[2].conversation_id = last.conversation_id
    /\ messages[1].conversation_id \in DOMAIN conversations
    /\ last.conversation_id \in DOMAIN conversations
    /\ conversations[messages[1].conversation_id].first_user_message # None
    /\ conversations[messages[1].conversation_id].updated_at
           < conversations[last.conversation_id].updated_at

-----------------------------------------------------------------------------
(* routes/conversations.py: the management endpoints, served by the ORM    *)
(* layer (SpecManage).                                                     *)

\* crud.get_conversation: the row, None where no conversation has the id
crud_get_conversation(S, conversation_id) ==
    IF conversation_id \in DOMAIN S.conversations
    THEN Some(S.conversations[conversation_id])
    ELSE None

\* GET /conversations/{conversation_id}
get_conversation_by_id(S, conversation_id) ==
    IF crud_get_conversation(S, conversation_id) = None
    THEN [store |-> S, status |-> 404, detail |-> "Conversation not found",
          calls |-> <<"get_conversation">>]
    ELSE [store |-> S, status |-> 200, detail |-> "",
          calls |-> <<"get_conversation">>]

\* a handler that deletes first and reports what the store answered
delete_conversation_by_id_unchecked(S, conversation_id) ==
    LET r == crud_delete_conversation(S, conversation_id)
    IN  IF r.result
        THEN [store |-> r.store, status |-> 200, detail |-> "deleted successfully",
              calls |-> <<"delete_conversation">>]
        ELSE [store |-> r.store, status |-> 404, detail |-> "Conversation not found",
              calls |-> <<"delete_conversation">>]

\* DELETE /conversations/{conversation_id}
delete_conversation_by_id(S, conversation_id) ==
    IF crud_get_conversation(S, conversation_id) = None
    THEN [store |-> S, status |-> 404, detail |-> "Conversation not found",
          calls |-> <<"get_conversation">>]
    ELSE LET r == crud_delete_conversation(S, conversation_id)
         IN  IF ~r.result
             THEN [store |-> r.store, status |-> 500,
                   detail |-> "Failed to delete conversation",
                   calls |-> <<"get_conversation", "delete_conversation">>]
             ELSE [store |-> r.store, status |-> 200,
                   detail |-> "deleted successfully",
                   calls |-> <<"get_conversation", "delete_conversation">>]

GetConversationById ==
    /\ backend = "orm"
    /\ \E conversation_id \in Nameable :
         LET r == get_conversation_by_id(Store, conversation_id)
         IN  last' = [op |-> "get_conversation_by_id",
                      conversation_id |-> conversation_id,
                      result |-> r.detail,
                      rows |-> <<>>,
                      args |-> [status |-> r.status, calls |-> r.calls]]
    /\ UNCHANGED <<backend, conversations, messages, now, uuids, providers, turn, txn, replicas>>

DeleteConversationById ==
    /\ backend = "orm"
    /\ \E conversation_id \in Nameable :
         LET r == delete_conversation_by_id(Store, conversation_id)
         IN  /\ conversations' = r.store.conversations
             /\ messages' = r.store.messages
             /\ last' = [op |-> "delete_conversation_by_id",
                         conversation_id |-> conversation_id,
                         result |-> r.detail,
                         rows |-> <<>>,
                      args |-> [status |-> r.status, calls |-> r.calls]]
    /\ UNCHANGED <<backend, now, uuids, providers, turn, txn, replicas>>

NextManage ==
    \/ CreateConversation
    \/ AppendAmong
    \/ DeleteConversation
    \/ GetConversationById
    \/ DeleteConversationById

SpecManage == InitStore /\ [][NextManage]_vars

-----------------------------------------------------------------------------
(* C30: what a delete reports (SpecManage) *)

\* a delete of the store answers True exactly where the conversation was there
\* and changes nothing where it answers False; an endpoint asked for an id no
\* conversation has answers 404 and does not call the store's delete
DeleteReported ==
    /\ last'.op = "delete_conversation"
       => /\ (last'.result = "True") <=> (last'.conversation_id \in DOMAIN conversations)
          /\ last'.result = "False"
             => conversations' = conversations /\ messages' = messages
    /\ (/\ last'.op \in {"get_conversation_by_id", "delete_conversation_by_id"}
        /\ last'.conversation_id \notin DOMAIN conversations)
       => /\ last'.args.status = 404
          /\ \A i \in DOMAIN last'.args.calls :
                 last'.args.calls[i] # "delete_conversation"
          /\ conversations' = conversations /\ messages' = messages

\* C30: delete_conversation(c) returns true exactly when conversation c was
\* there just before the call, and leaves the store as it was when it returns
\* false; the endpoints answer 404 to a fetch or a delete of an unknown id, and
\* for such an id the store's delete is not called
C30_DeleteReportsExistence == [][DeleteReported]_vars

\* the endpoint was asked to delete a conversation that had been deleted
C30_Witness ==
    /\ last.op = "delete_conversation_by_id"
    /\ last.conversation_id \in 1..uuids
    /\ last.conversation_id \notin DOMAIN conversations
    /\ last.args.status = 404
    /\ last.args.calls = <<"get_conversation">>

-----------------------------------------------------------------------------
(* get_all_conversations and GET /conversations: the conversations of an
   owner, newest change first, one page of them, each with its message count *)

Listed == {1, 2, 3}

\* the user_id column: NULL, or the id of one of two users
StoredOwners == {None, Some(Str(1)), Some(Str(2))}

\* the user_id a request passes: none, or that of the first user
Owners == {None, Some(Str(1))}
Limits == 1..2
Offsets == 0..2

\* INSERT INTO conversations (..., user_id, ...)
OwnedConversation(user_id, t) ==
    LET row == NewConversation(<<"gpt-", "4o-mini">>, None, t)
    IN  [column \in DOMAIN row \cup {"user_id"} |->
            IF column = "user_id" THEN user_id ELSE row[column]]

\* if user_id: ... WHERE c.user_id = ?
Selected(S, user_id) ==
    IF Falsy(user_id) THEN DOMAIN S.conversations
    ELSE {c \in DOMAIN S.conversations : S.conversations[c].user_id = user_id}

\* ORDER BY c.updated_at DESC names no second key: every arrangement of the
\* selected rows that is non-increasing in updated_at may be returned
ListOrderings(S, user_id) ==
    LET ids == Selected(S, user_id)
        n == Cardinality(ids)
    IN  {o \in [1..n -> ids] :
            /\ \A i, j \in 1..n : i # j => o[i] # o[j]
            /\ \A i, j \in 1..n :
                   i < j => S.conversations[o[i]].updated_at
                                >= S.conversations[o[j]].updated_at}

\* COUNT(m.id) over the LEFT JOIN, the COUNT(*) subquery, len(conv.messages)
message_count(S, conversation_id) == Len(MessagesOf(S, conversation_id))

\* a page that ignores OFFSET
get_all_conversations_from_top(S, user_id, limit, offset, ordered) ==
    LET page == SubSeq(ordered, 1, IF limit < Len(ordered) THEN limit ELSE Len(ordered))
    IN  [i \in DOMAIN page |->
            [id |-> page[i],
             updated_at |-> S.conversations[page[i]].updated_at,
             user_id |-> S.conversations[page[i]].user_id,
             message_count |-> message_count(S, page[i])]]

\* LIMIT ? OFFSET ? / OFFSET ? ROWS FETCH NEXT ? ROWS ONLY / .offset().limit()
get_all_conversations(S, user_id, limit, offset, ordered) ==
    LET to == IF offset + limit < Len(ordered) THEN offset + limit ELSE Len(ordered)
        page == SubSeq(ordered, offset + 1, to)
    IN  [i \in DOMAIN page |->
            [id |-> page[i],
             updated_at |-> S.conversations[page[i]].updated_at,
             user_id |-> S.conversations[page[i]].user_id,
             message_count |-> message_count(S, page[i])]]

\* three conversations created one after the other: two of users, the third
\* of any owner
InitList ==
    /\ backend \in Backends
    /\ \E owner \in {o \in [Listed -> StoredOwners] :
                         o[1] = Some(Str(1)) /\ o[2] # None} :
         conversations = [c \in Listed |-> OwnedConversation(owner[c], 0)]
    /\ messages = <<>>
    /\ now = 0
    /\ uuids = Cardinality(Listed)
    /\ last = NoCall
    /\ providers = {}
    /\ turn = NoTurn
    /\ txn = NoTxn
    /\ replicas = NoReplicas

\* add_message of a user message to one of the conversations
AppendListed ==
    /\ Len(messages) < MaxMsgs
    /\ \E conversation_id \in DOMAIN conversations, t \in Later :
         LET r == add_message(backend, Store, Len(messages) + 1, conversation_id,
                              "user", Str(1), None, t, t)
         IN  /\ conversations' = r.store.conversations
             /\ messages' = r.store.messages
             /\ now' = t
             /\ last' = [op |-> "add_message", conversation_id |-> conversation_id,
                         result |-> r.result, rows |-> <<>>, args |-> <<>>]
    /\ UNCHANGED <<backend, uuids, providers, turn, txn, replicas>>

ListConversations ==
    /\ \E user_id \in Owners, limit \in Limits, offset \in Offsets :
         \E ordered \in ListOrderings(Store, user_id) :
           last' = [op |-> "get_all_conversations", conversation_id |-> UnknownId,
                    result |-> "conversations",
                    rows |-> get_all_conversations(Store, user_id, limit, offset, ordered),
                    args |-> [user_id |-> user_id, limit |-> limit, offset |-> offset]]
    /\ UNCHANGED <<backend, conversations, messages, now, uuids, providers, turn, txn, replicas>>

NextList == AppendListed \/ DeleteConversation \/ ListConversations

SpecList == InitList /\ [][NextList]_vars

-----------------------------------------------------------------------------
(* C31: what a listing returns (SpecList) *)

\* the conversations a listing for the owner has to choose from
OwnedBy(user_id) ==
    {c \in DOMAIN conversations :
        user_id # None => conversations[c].user_id = user_id}

-----------------------------------------------------------------------------
(* brief_summary_of_conversation_history: the texts it rewrites and the
   completion it asks for.  A text is a sequence of tokens; a token stands for
   the characters it spells, and the four patterns are matched as re.sub
   matches them, leftmost first and without overlap *)

MaxText == 4

RESOURCE == <<"<resource", " ", "/>">>

DATA_URI == "data:image/png;base64,"

\* what [^\"\s] does not match
NotInUri == {" ", "\""}

\* what [^>] does not match: the tokens that end in '>'
ClosesTag == {">", "/>"}

Tokens == {"a", " ", "![", "]", "(", ")", "<img", ">", DATA_URI, "[attachment:"}

Least(S) == CHOOSE k \in S : \A j \in S : k <= j

\* re.sub(r'!\[.*?\]\(.*?\)', '<resource />', content)
RECURSIVE sub_markdown_image(_)
sub_markdown_image(content) ==
    IF content = <<>> THEN <<>>
    ELSE LET n == Len(content)
             mid == {j \in 2..(n - 1) : content[j] = "]" /\ content[j + 1] = "("}
             end == IF mid = {} THEN {}
                    ELSE {k \in (Least(mid) + 2)..n : content[k] = ")"}
         IN  IF content[1] = "![" /\ end # {}
             THEN RESOURCE \o sub_markdown_image(SubSeq(content, Least(end) + 1, n))
             ELSE <<content[1]>> \o sub_markdown_image(Tail(content))

\* re.sub(r'<img[^>]*>', '<resource />', content)
RECURSIVE sub_img_tag(_)
sub_img_tag(content) ==
    IF content = <<>> THEN <<>>
    ELSE LET n == Len(content)
             end == {k \in 2..n : content[k] \in ClosesTag}
         IN  IF content[1] = "<img" /\ end # {}
             THEN RESOURCE \o sub_img_tag(SubSeq(content, Least(end) + 1, n))
             ELSE <<content[1]>> \o sub_img_tag(Tail(content))

\* re.sub(r'data:image\/[^;]+;base64,[^\"\s]+', '<resource />', content)
RECURSIVE sub_data_uri(_)
sub_data_uri(content) ==
    IF content = <<>> THEN <<>>
    ELSE LET n == Len(content)
             stop == {k \in 2..n : content[k] \in NotInUri}
             end == IF stop = {} THEN n ELSE Least(stop) - 1
         IN  IF content[1] = DATA_URI /\ end >= 2
             THEN RESOURCE \o sub_data_uri(SubSeq(content, end + 1, n))
             ELSE <<content[1]>> \o sub_data_uri(Tail(content))

\* re.sub(r'\[attachment:.*?\]', '<resource />', content)
RECURSIVE sub_attachment(_)
sub_attachment(content) ==
    IF content = <<>> THEN <<>>
    ELSE LET n == Len(content)
             end == {k \in 2..n : content[k] = "]"}
         IN  IF content[1] = "[attachment:" /\ end # {}
             THEN RESOURCE \o sub_attachment(SubSeq(content, Least(end) + 1, n))
             ELSE <<content[1]>> \o sub_attachment(Tail(content))

\* the four substitutions, in the order the code applies them
processed_content(content) ==
    sub_attachment(sub_data_uri(sub_img_tag(sub_markdown_image(content))))

\* processed_msg = msg.copy(), its content rewritten
processed_messages(msgs) ==
    [i \in DOMAIN msgs |-> Entry(msgs[i].role, processed_content(msgs[i].content))]

\* a summarizer that asks with its own defaults whatever the caller passes
brief_summary_with_defaults(registry, msgs, max_tokens, temperature) ==
    IF OPENAI \notin registry
    THEN [raised |-> "OpenAI provider is not initialized", sent |-> <<>>,
          kwargs |-> <<>>, messages |-> msgs]
    ELSE [raised |-> "",
          sent |-> processed_messages(msgs),
          kwargs |-> [provider |-> get_provider_for_model(<<"gpt-", "4o-mini">>),
                      model |-> <<"gpt-", "4o-mini">>,
                      max_tokens |-> 500, temperature |-> 3],
          messages |-> msgs]

\* the call brief_summary_of_conversation_history makes: the provider that
\* get_chat_completion resolves for the model, the keyword arguments handed to
\* it, the messages joined into the prompt in their order, and the caller's
\* list as the call leaves it; temperature in tenths
brief_summary_call(registry, msgs, max_tokens, temperature) ==
    IF OPENAI \notin registry
    THEN [raised |-> "OpenAI provider is not initialized", sent |-> <<>>,
          kwargs |-> <<>>, messages |-> msgs]
    ELSE [raised |-> "",
          sent |-> processed_messages(msgs),
          kwargs |-> [provider |-> get_provider_for_model(<<"gpt-", "4o-mini">>),
                      model |-> <<"gpt-", "4o-mini">>,
                      max_tokens |-> max_tokens, temperature |-> temperature],
          messages |-> msgs]

\* texts with one reference of each kind, and one with none
Samples ==
    {<<"a">>,
     <<"a", " ", "![", "a", "]", "(", "a", ")">>,
     <<"<img", " ", "a", ">", " ", "a">>,
     <<DATA_URI, "a">>,
     <<"[attachment:", "a", "]">>}

RECURSIVE TextsUpTo(_)
TextsUpTo(n) ==
    IF n = 0 THEN {<<>>}
    ELSE LET shorter == TextsUpTo(n - 1)
         IN  shorter \cup {Append(t, k) : t \in {u \in shorter : Len(u) = n - 1},
                                         k \in Tokens}

\* max_tokens and temperature (in tenths) a caller passes: the defaults and
\* the values of the test
MaxTokens == {300, 500}
Temperatures == {3, 7}

\* the model the conversation was created with
ConversationModels == {<<"gpt-", "4o">>, <<"claude-", "3-opus-20240229">>}

\* one conversation of two messages, the first of them with any of the texts
SummarizerStart(texts) ==
    /\ backend = "sqlite"
    /\ \E model \in ConversationModels :
         conversations = [c \in {FreshConversation} |-> NewConversation(model, None, 0)]
    /\ \E content \in texts :
         messages = <<NewMessage(1, FreshConversation, "user", content, None, 0),
                      NewMessage(2, FreshConversation, "assistant",
                                 <<"[attachment:", "a", "]">>, None, 0)>>
    /\ now = 0
    /\ uuids = FreshConversation
    /\ last = NoCall
    /\ turn = NoTurn
    /\ txn = NoTxn
    /\ replicas = NoReplicas

InitSummarizer ==
    /\ providers \in Registries
    /\ SummarizerStart(Samples)

InitScrub ==
    /\ providers = {OPENAI}
    /\ SummarizerStart(TextsUpTo(MaxText))

BriefSummary ==
    /\ \E max_tokens \in MaxTokens, temperature \in Temperatures :
         LET r == brief_summary_call(providers, Project(messages),
                                     max_tokens, temperature)
         IN  last' = [op |-> "brief_summary_of_conversation_history",
                      conversation_id |-> FreshConversation,
                      result |-> r.raised,
                      rows |-> r.sent,
                      args |-> [max_tokens |-> max_tokens, temperature |-> temperature,
                                kwargs |-> r.kwargs, messages |-> r.messages]]
    /\ UNCHANGED <<backend, conversations, messages, now, uuids, providers, turn, txn, replicas>>

NextSummarizer == BriefSummary

SpecSummarizer == InitSummarizer /\ [][NextSummarizer]_vars

SpecScrub == InitScrub /\ [][NextSummarizer]_vars

-----------------------------------------------------------------------------
(* C32: the completion the summarizer asks for (SpecSummarizer) *)

\* C32: every call of the summarizer that reaches a provider reaches OpenAI
\* with the model gpt-4o-mini, whatever the model of the conversation, and
\* hands it the max_tokens and the temperature its caller passed
C32_FixedModelForwardedParameters ==
    (last.op = "brief_summary_of_conversation_history" /\ last.result = "")
    => /\ last.args.kwargs.provider = Some(OPENAI)
       /\ last.args.kwargs.model = <<"gpt-", "4o-mini">>
       /\ last.args.kwargs.max_tokens = last.args.max_tokens
       /\ last.args.kwargs.temperature = last.args.temperature

\* a conversation held with a Claude model was summarized with parameters
\* other than the defaults
C32_Witness ==
    /\ last.op = "brief_summary_of_conversation_history"
    /\ last.result = ""
    /\ conversations[FreshConversation].model = <<"claude-", "3-opus-20240229">>
    /\ last.args.max_tokens = 300
    /\ last.args.temperature = 7

-----------------------------------------------------------------------------
(* C33: the texts the summarizer sends (SpecScrub) *)

\* where a reference of one of the four kinds lies in a text: ![alt](url),
\* <img ...>, a data URI up to the next blank or quote, [attachment:...]
References(content) ==
    LET n == Len(content)
        At(open, i) == i \in 1..n /\ content[i] = open
    IN  {<<i, k>> \in (1..n) \X (1..n) :
            \/ /\ At("![", i)
               /\ \E j \in (i + 1)..(k - 2) :
                      /\ content[j] = "]" /\ content[j + 1] = "("
                      /\ \A h \in (i + 1)..(j - 1) :
                             ~(content[h] = "]" /\ content[h + 1] = "(")
                      /\ content[k] = ")"
                      /\ \A h \in (j + 2)..(k - 1) : content[h] # ")"
            \/ /\ At("<img", i) /\ k > i
               /\ content[k] \in ClosesTag
               /\ \A h \in (i + 1)..(k - 1) : content[h] \notin ClosesTag
            \/ /\ At(DATA_URI, i) /\ k > i
               /\ \A h \in (i + 1)..k : content[h] \notin NotInUri
               /\ (k = n \/ content[k + 1] \in NotInUri)
            \/ /\ At("[attachment:", i) /\ k > i
               /\ content[k] = "]"
               /\ \A h \in (i + 1)..(k - 1) : content[h] # "]"}

\* the text outside every reference
Rest(content) ==
    LET Outside(i) == \A r \in References(content) : i < r[1] \/ i > r[2]
        keep == {i \in DOMAIN content : Outside(i)}
        Nth(S, m) == CHOOSE i \in S : Cardinality({j \in S : j < i}) = m - 1
    IN  [m \in 1..Cardinality(keep) |-> content[Nth(keep, m)]]

\* a text with its placeholders taken out
RECURSIVE WithoutPlaceholders(_)
WithoutPlaceholders(content) ==
    IF content = <<>> THEN <<>>
    ELSE IF Len(content) >= 3 /\ SubSeq(content, 1, 3) = RESOURCE
    THEN WithoutPlaceholders(SubSeq(content, 4, Len(content)))
    ELSE <<content[1]>> \o WithoutPlaceholders(Tail(content))

\* C33: the summarizer sends one text per message of its caller, in the
\* caller's order and under the caller's roles; no reference of the four kinds
\* is left in a text sent; what is sent is the text outside the references,
\* with placeholders where there were references; and the caller's list is as
\* it was
C33_ReferencesReplaced ==
    (last.op = "brief_summary_of_conversation_history" /\ last.result = "")
    => LET msgs == Project(messages)
           sent == last.rows
       IN  /\ last.args.messages = msgs
           /\ Len(sent) = Len(msgs)
           /\ \A i \in DOMAIN msgs :
                  /\ sent[i].role = msgs[i].role
                  /\ References(sent[i].content) = {}
                  /\ WithoutPlaceholders(sent[i].content) = Rest(msgs[i].content)
                  /\ (sent[i].content # msgs[i].content)
                         <=> (References(msgs[i].content) # {})

-----------------------------------------------------------------------------
(* llm_service_providers/anthropic.py stream_chat_completion: the request it
   builds from a history *)

MaxHistory == 3

AdapterRoles == {"user", "assistant", "system", "tool"}

\* an adapter that hands every message on under its own role
anthropic_request_any_role(history, system) ==
    [messages |-> history, system |-> system, raised |-> ""]

\* the loop over messages: kwargs["system"] is assigned at each system
\* message, user and assistant messages are appended, the others skipped
RECURSIVE anthropic_request(_, _)
anthropic_request(history, system) ==
    IF history = <<>> THEN [messages |-> <<>>, system |-> system, raised |-> ""]
    ELSE LET msg == Head(history)
             rest == anthropic_request(Tail(history),
                                       IF msg.role = "system" THEN Some(msg.content)
                                       ELSE system)
         IN  IF msg.role \in {"assistant", "user"}
             THEN [rest EXCEPT !.messages = <<Entry(msg.role, msg.content)>> \o @]
             ELSE rest

\* histories of up to MaxHistory messages of any roles, each with its own text
RECURSIVE Histories(_)
Histories(n) ==
    IF n = 0 THEN {<<>>}
    ELSE LET shorter == Histories(n - 1)
         IN  shorter \cup {Append(h, NewMessage(n, FreshConversation, role, Str(n), None, n)) :
                              h \in {g \in shorter : Len(g) = n - 1},
                              role \in AdapterRoles}

InitAnthropic ==
    /\ backend = "sqlite"
    /\ conversations = [c \in {FreshConversation} |->
                           NewConversation(<<"claude-", "3-opus-20240229">>, None, 0)]
    /\ messages \in Histories(MaxHistory)
    /\ now = Len(messages)
    /\ uuids = FreshConversation
    /\ last = NoCall
    /\ providers = {ANTHROPIC}
    /\ turn = NoTurn
    /\ txn = NoTxn
    /\ replicas = NoReplicas

\* stream_chat_completion(model, messages, **kwargs), the caller passing a
\* system keyword or none
StreamChatCompletion ==
    /\ \E system \in {None, Some(Str(0))} :
         LET r == anthropic_request(ProjectAnyRole(messages), system)
         IN  last' = [op |-> "stream_chat_completion",
                      conversation_id |-> FreshConversation,
                      result |-> r.raised,
                      rows |-> r.messages,
                      args |-> [system |-> r.system, kwargs |-> system]]
    /\ UNCHANGED <<backend, conversations, messages, now, uuids, providers, turn, txn, replicas>>

NextAnthropic == StreamChatCompletion

SpecAnthropic == InitAnthropic /\ [][NextAnthropic]_vars

-----------------------------------------------------------------------------
(* C34: roles in the Anthropic request (SpecAnthropic) *)

\* C34: whatever the roles of the history, the adapter raises nothing; the
\* message list it sends holds the user and assistant messages, all of them,
\* with their contents and in their order, and no message of another role;
\* the system field carries the content of the last system message, and the
\* caller's keyword where the history has none
C34_AnthropicRolesTranslated ==
    last.op = "stream_chat_completion"
    => LET spoken == {i \in DOMAIN messages : messages[i].role \in {"user", "assistant"}}
           systems == {i \in DOMAIN messages : messages[i].role = "system"}
           Place(i) == Cardinality({j \in spoken : j <= i})
       IN  /\ last.result = ""
           /\ Len(last.rows) = Cardinality(spoken)
           /\ \A i \in spoken :
                  /\ last.rows[Place(i)].role = messages[i].role
                  /\ last.rows[Place(i)].content = messages[i].content
           /\ IF systems = {} THEN last.args.system = last.args.kwargs
              ELSE \E i \in systems :
                      /\ \A j \in systems : j <= i
                      /\ last.args.system = Some(messages[i].content)

\* a history with a system message, a tool message and a user message after
\* them was sent
C34_Witness ==
    /\ last.op = "stream_chat_completion"
    /\ Len(messages) = 3
    /\ messages[1].role = "system"
    /\ messages[2].role = "tool"
    /\ messages[3].role = "user"
    /\ Len(last.rows) = 1
    /\ last.args.system = Some(messages[1].content)

-----------------------------------------------------------------------------
(* C35: what a completed turn persisted (SpecTurn) *)

\* the content fields of the events sent before position n that are not
\* terminal, one after the other
RECURSIVE Relayed(_, _)
Relayed(events, n) ==
    IF n = 0 THEN <<>>
    ELSE Relayed(events, n - 1) \o (IF events[n].done THEN <<>> ELSE events[n].content)

\* C35: a turn that is COMPLETE has stored one assistant message, and its
\* content is what the events before the terminal one carried, in the order
\* they were sent; where the backend's stream had no item the message stored
\* has the empty content
C35_PersistedIsWhatWasRelayed ==
    turn.pc = "COMPLETE"
    => /\ Cardinality(TurnAssistantRows) = 1
       /\ \A i \in TurnAssistantRows :
              /\ messages[i].content = Relayed(turn.events, Len(turn.events))
              /\ turn.items = <<>> => messages[i].content = <<>>

\* a turn completed after two items that both carried text
C35_Witness ==
    /\ turn.pc = "COMPLETE"
    /\ Len(turn.items) = 2
    /\ \A i \in DOMAIN turn.items : ChunkContent(turn.items[i]) # <<>>
    /\ \E i \in TurnAssistantRows : Len(messages[i].content) = 2

-----------------------------------------------------------------------------
(* C36: what a failed turn leaves behind (SpecTurn) *)

\* C36: where a turn has ended FAILED its conversation exists, also where the
\* turn created it; the store holds one message more than when the request
\* arrived, the user message of the turn in that conversation, and no
\* assistant message of the turn; and the conversation's updated_at is not
\* below what it was and not below the created_at of that message
C36_FailedTurnKeepsUserMessage ==
    turn.pc = "FAILED"
    => LET c == turn.conversation_id
       IN  /\ c \in DOMAIN conversations
           /\ Len(messages) = turn.rows0 + 1
           /\ messages[Len(messages)].conversation_id = c
           /\ messages[Len(messages)].role = "user"
           /\ messages[Len(messages)].content = turn.message
           /\ TurnAssistantRows = {}
           /\ conversations[c].updated_at >= messages[Len(messages)].created_at
           /\ c \in DOMAIN turn.listing0
              => conversations[c].updated_at >= turn.listing0[c].updated_at

\* a turn that created its conversation failed after an item had been relayed
C36_Witness ==
    /\ turn.pc = "FAILED"
    /\ turn.created
    /\ turn.items # <<>>
    /\ turn.e = Some("BackendStreamError")

-----------------------------------------------------------------------------
(* a turn on a conversation that holds an earlier turn's two messages *)

\* the store after create_conversation, the earlier turn's user message at
\* second 0 and its assistant message at second t
EarlierTurn(model, t) ==
    LET S0 == create_conversation(EmptyStore, FreshConversation, model, None, 0)
        S1 == add_message("sqlite", S0, 1, FreshConversation, "user", Str(2),
                          None, 0, 0).store
    IN  add_message("sqlite", S1, 2, FreshConversation, "assistant", <<3>>,
                    Some(model), t, t).store

\* the request of the next turn has arrived, at the second the earlier turn
\* ended or later
InitFollowUp ==
    /\ backend = "sqlite"
    /\ \E model \in RequestModels, message \in UserMessages, t \in 0..MaxTime :
         LET S == EarlierTurn(model, t)
         IN  /\ conversations = S.conversations
             /\ messages = S.messages
             /\ now = t
             /\ turn = [NoTurn EXCEPT !.pc = "CREATED", !.model = model,
                                      !.message = message,
                                      !.conversation_session_id = Some(FreshConversation),
                                      !.listing0 = S.conversations,
                                      !.rows0 = Len(S.messages)]
    /\ uuids = FreshConversation
    /\ last = NoCall
    /\ providers \in Registries
    /\ txn = NoTxn
    /\ replicas = NoReplicas

NextFollowUp ==
    \/ chat_check_model
    \/ chat_create_conversation
    \/ chat_add_message
    \/ chat_get_message_history
    \/ chat_return
    \/ stream_generator_open
    \/ stream_generator_chunk
    \/ stream_generator_resume
    \/ stream_generator_done
    \/ stream_generator_backend_error
    \/ stream_generator_add_message
    \/ stream_generator_return
    \/ disconnect

SpecFollowUp == InitFollowUp /\ [][NextFollowUp]_vars

-----------------------------------------------------------------------------
(* C37: the last entry of the history handed to the backend (SpecFollowUp) *)

\* C37: the history a turn hands to the backend, read after the turn's user
\* message was stored and short enough not to be summarized, ends with that
\* user message: role user and the text of the request
C37_HistoryEndsWithUserMessage ==
    (turn.history # None /\ Len(turn.history[1]) <= CONVERSATION_MESSAGES_THRESHOLD)
    => /\ turn.history[1] # <<>>
       /\ turn.history[1][Len(turn.history[1])] = Entry("user", turn.message)

-----------------------------------------------------------------------------
(* C38: accepted models and the stream (SpecTurn) *)

\* the availability check of the handler has let the turn's model through
Accepted == turn.pc \notin {"idle", "CREATED", "rejected"}

\* C38: a model the availability check accepted names a backend of the
\* registry: for it stream_chat opens the stream, and no turn with an accepted
\* model ends with the unsupported-model or the not-initialized error
C38_AcceptedModelResolves ==
    Accepted
    => /\ get_provider_for_model(turn.model) # None
       /\ get_provider_for_model(turn.model)[1] \in providers
       /\ stream_chat(providers, turn.model) = "stream"
       /\ turn.e \notin {Some("Unsupported model"), Some("Provider is not initialized")}

\* the stream of a Claude model was opened where Anthropic alone is registered
C38_Witness ==
    /\ Accepted
    /\ turn.opened
    /\ turn.model = <<"claude-", "3-5-haiku-20241022">>
    /\ providers = {ANTHROPIC}

-----------------------------------------------------------------------------
(* DELETE /conversations/{conversation_id} served by two workers, each with
   its own session: get_conversation, then delete_conversation *)

DeleteTargets == {1, 2}

NoDelete == [pc |-> "idle", conversation_id |-> UnknownId, status |-> 0, detail |-> ""]

\* two conversations, the first with a message or without
InitDeletes ==
    /\ backend = "orm"
    /\ conversations = [c \in DeleteTargets |->
                           NewConversation(<<"gpt-", "4o-mini">>, None, 0)]
    /\ messages \in {<<>>, <<NewMessage(1, 1, "tool", Str(1), None, 0)>>}
    /\ now = 0
    /\ uuids = Cardinality(DeleteTargets)
    /\ last = NoCall
    /\ providers = {}
    /\ turn = NoTurn
    /\ txn = [NoTxn EXCEPT !.calls = [p \in Procs |-> NoDelete]]
    /\ replicas = NoReplicas

\* a request arrives at a worker
delete_request ==
    /\ \E p \in Procs, conversation_id \in Nameable :
         /\ txn.calls[p].pc = "idle"
         /\ txn' = [txn EXCEPT !.calls[p] =
                       [NoDelete EXCEPT !.pc = "check",
                                        !.conversation_id = conversation_id]]
    /\ UNCHANGED <<backend, conversations, messages, now, uuids, last, providers, turn, replicas>>

\* lines 125-127: get_conversation, 404 where it finds nothing
delete_check ==
    /\ \E p \in Procs :
         /\ txn.calls[p].pc = "check"
         /\ IF crud_get_conversation(Store, txn.calls[p].conversation_id) = None
            THEN txn' = [txn EXCEPT !.calls[p].pc = "done",
                                    !.calls[p].status = 404,
                                    !.calls[p].detail = "Conversation not found"]
            ELSE txn' = [txn EXCEPT !.calls[p].pc = "delete"]
    /\ UNCHANGED <<backend, conversations, messages, now, uuids, last, providers, turn, replicas>>

\* lines 129-135: delete_conversation, 500 where it answers False
delete_delete ==
    /\ \E p \in Procs :
         /\ txn.calls[p].pc = "delete"
         /\ LET r == crud_delete_conversation(Store, txn.calls[p].conversation_id)
            IN  /\ conversations' = r.store.conversations
                /\ messages' = r.store.messages
                /\ IF ~r.result
                   THEN txn' = [txn EXCEPT !.calls[p].pc = "done",
                                           !.calls[p].status = 500,
                                           !.calls[p].detail =
                                               "Failed to delete conversation"]
                   ELSE txn' = [txn EXCEPT !.calls[p].pc = "done",
                                           !.calls[p].status = 200,
                                           !.calls[p].detail = "deleted successfully"]
    /\ UNCHANGED <<backend, now, uuids, last, providers, turn, replicas>>

NextDeletes == delete_request \/ delete_check \/ delete_delete

SpecDeletes == InitDeletes /\ [][NextDeletes]_vars

-----------------------------------------------------------------------------
(* C39: two deletes of one conversation (SpecDeletes) *)

\* C39: where both workers have answered a delete of the same conversation,
\* one answered 200 and the other 404, and no worker ever answers 500
C39_OneDeletesOtherNotFound ==
    /\ \A p \in Procs : txn.calls[p].status # 500
    /\ (/\ \A p \in Procs : txn.calls[p].pc = "done"
        /\ txn.calls[1].conversation_id = txn.calls[2].conversation_id
        /\ txn.calls[1].conversation_id \in DeleteTargets)
       => {txn.calls[p].status : p \in Procs} = {200, 404}

====
